---- MODULE Spec2Model ----
(***************************************************************************)
(* Verification model of radar-backend: the acquisition pipeline           *)
(* (server/scraper/radarScraper.js), the classifier and the regional mock  *)
(* generator (server/processor/radarProcessor.js), the snapshot store      *)
(* (server/database/database.js) and the scheduling in server/index.js.    *)
(*                                                                         *)
(* Numbers.  JavaScript doubles are modelled in fixed point: an integer n  *)
(* stands for n / Scale (degrees, dBZ, or a Math.random() draw in [0,1)).  *)
(* Products of two fixed-point numbers are divided by Scale.               *)
(***************************************************************************)
EXTENDS Integers, Sequences, FiniteSets, TLC

VARIABLES
    \* --- RadarProcessor classifier applied to a pair of inputs
    clsIn, clsOut,
    \* --- one point at a time through every generator / decoder
    emitted, built, procError,
    \* --- RadarScraper.getLatestRadarData (one run)
    pc, outcomes, result, propagated, mockStation, mockCount, lastStationCount,
    pending, mrmsIo, stationCalls, nwsServes,
    \* --- server/index.js + Database
    backend, dbInitialized, now, cronFired, phase,
    radar_data, radar_metadata, cycles, lastRead,
    \* --- RadarScraper.convertGRIB2ToRadarPoints on one field
    decPc, decField, decOut, decVisited,
    \* --- RadarScraper.getMRMSNcepData (one call) and its download directory
    primPc, primIn, primOut, downloadDir

clsVars    == <<clsIn, clsOut>>
pointVars  == <<emitted, built, procError>>
pipeVars   == <<pc, outcomes, result, propagated, mockStation, mockCount,
                lastStationCount, pending, mrmsIo, stationCalls, nwsServes>>
serverVars == <<backend, dbInitialized, now, cronFired, phase,
                radar_data, radar_metadata, cycles, lastRead>>
decVars    == <<decPc, decField, decOut, decVisited>>
primVars   == <<primPc, primIn, primOut, downloadDir>>
vars       == <<clsVars, pointVars, pipeVars, serverVars, decVars, primVars>>

-----------------------------------------------------------------------------
(* Resolution and bounds of the model *)

\* fixed-point denominator: n stands for n / Scale
Scale == 100

\* largest whole dBZ value fed to the classifiers
MaxDbz == 60

Undefined == "undefined"

\* JavaScript values that may be a number or not: a tag and, for numbers,
\* the fixed-point value
Num(n) == [t |-> "number", v |-> n]
Null   == [t |-> "null", v |-> 0]
NaN    == [t |-> "NaN", v |-> 0]
Undef  == [t |-> "undefined", v |-> 0]

Min(a, b) == IF a < b THEN a ELSE b
Max(a, b) == IF a > b THEN a ELSE b

\* a * b for two fixed-point numbers
Mul(a, b) == (a * b) \div Scale

\* Math.floor of a fixed-point number, as a plain integer
Floor(a) == a \div Scale

\* Math.random(): draws in [0, 1), the smallest and (nearly) the largest included
RandomDraws == {0, Scale \div 4, Scale \div 2, Scale - 1}

\* (cos t, sin t) for the angles the model distinguishes: exact rational
\* points of the unit circle (axes and the 3-4-5 directions)
UnitCircle ==
    LET a == (3 * Scale) \div 5
        b == (4 * Scale) \div 5
    IN  {<<Scale, 0>>, <<0, Scale>>, <<0 - Scale, 0>>, <<0, 0 - Scale>>,
         <<a, b>>, <<0 - a, b>>, <<a, 0 - b>>, <<0 - a, 0 - b>>,
         <<b, a>>, <<0 - b, a>>, <<b, 0 - a>>, <<0 - b, 0 - a>>}

-----------------------------------------------------------------------------
(* RadarProcessor: the 5-bucket classifier *)

reflectivityToPrecipitationLE(reflectivity) ==
    IF reflectivity <= 10 * Scale THEN "none"
    ELSE IF reflectivity < 20 * Scale THEN "light"
    ELSE IF reflectivity < 30 * Scale THEN "moderate"
    ELSE IF reflectivity < 40 * Scale THEN "heavy"
    ELSE "extreme"

reflectivityToPrecipitation(reflectivity) ==
    IF reflectivity < 10 * Scale THEN "none"
    ELSE IF reflectivity < 20 * Scale THEN "light"
    ELSE IF reflectivity < 30 * Scale THEN "moderate"
    ELSE IF reflectivity < 40 * Scale THEN "heavy"
    ELSE "extreme"

Processor_getColorForReflectivity(reflectivity) ==
    IF reflectivity < 10 * Scale THEN "#ffffff"
    ELSE IF reflectivity < 20 * Scale THEN "#00ff00"
    ELSE IF reflectivity < 30 * Scale THEN "#ffff00"
    ELSE IF reflectivity < 40 * Scale THEN "#ff8000"
    ELSE IF reflectivity < 50 * Scale THEN "#ff0000"
    ELSE "#800080"

(* RadarScraper: the 3-bucket classifier *)

classifyPrecipitation(reflectivity) ==
    IF reflectivity < 20 * Scale THEN "light"
    ELSE IF reflectivity < 35 * Scale THEN "moderate"
    ELSE IF reflectivity < 45 * Scale THEN "heavy"
    ELSE "extreme"

Scraper_getColorForReflectivity(reflectivity) ==
    IF reflectivity < 20 * Scale THEN "#00ff00"
    ELSE IF reflectivity < 35 * Scale THEN "#ffff00"
    ELSE IF reflectivity < 45 * Scale THEN "#ff8000"
    ELSE "#ff0000"

-----------------------------------------------------------------------------
(* Classifier specification: both RadarProcessor mappings applied to a pair *)
(* of reflectivities                                                        *)

NoResult == [precipitation |-> Undefined, color |-> Undefined]

\* half-dBZ steps from -1 dBZ to MaxDbz, and the value just below each whole dBZ
ClassifierInputs ==
    {(k * Scale) \div 2 : k \in (0 - 2)..(2 * MaxDbz)}
        \cup {b * Scale - 1 : b \in 1..MaxDbz}

classify(reflectivity) ==
    [precipitation |-> reflectivityToPrecipitation(reflectivity),
     color         |-> Processor_getColorForReflectivity(reflectivity)]

ClsInit ==
    /\ clsIn \in ClassifierInputs \X ClassifierInputs
    /\ clsOut = <<NoResult, NoResult>>

Classify ==
    /\ clsOut = <<NoResult, NoResult>>
    /\ clsOut' = <<classify(clsIn[1]), classify(clsIn[2])>>
    /\ UNCHANGED clsIn

-----------------------------------------------------------------------------
(* RadarScraper: stations and the per-point bodies of its generators *)

\* whole degrees plus tenths, as a fixed-point number
Deg(whole, tenths) == whole * Scale + (tenths * Scale) \div 10

getRadarStations ==
    << [id |-> "KTLX", lat |-> Deg(35, 3), lon |-> 0 - Deg(97, 3)],
       [id |-> "KDFX", lat |-> Deg(29, 3), lon |-> 0 - Deg(100, 3)],
       [id |-> "KEWX", lat |-> Deg(29, 7), lon |-> 0 - Deg(98, 0)],
       [id |-> "KFWS", lat |-> Deg(32, 6), lon |-> 0 - Deg(97, 3)],
       [id |-> "KGRK", lat |-> Deg(31, 2), lon |-> 0 - Deg(97, 1)],
       [id |-> "KSHV", lat |-> Deg(32, 4), lon |-> 0 - Deg(93, 8)],
       [id |-> "KLZK", lat |-> Deg(34, 8), lon |-> 0 - Deg(92, 3)],
       [id |-> "KPOE", lat |-> Deg(31, 2), lon |-> 0 - Deg(93, 2)],
       [id |-> "KLCH", lat |-> Deg(30, 1), lon |-> 0 - Deg(93, 2)],
       [id |-> "KLIX", lat |-> Deg(30, 3), lon |-> 0 - Deg(89, 8)] >>

NoPoint == [coordinates |-> <<0, 0>>, reflectivity |-> 0, precipitation |-> Undefined,
            color |-> Undefined, source |-> Undefined, field |-> Undefined,
            station |-> Undefined]

\* the object literal the scraper pushes; raw is the unclamped reflectivity
\* the two classifier calls receive
ScraperPoint(lon, lat, stored, raw, src, fld, st) ==
    [coordinates   |-> <<lon, lat>>,
     reflectivity  |-> stored,
     precipitation |-> classifyPrecipitation(raw),
     color         |-> Scraper_getColorForReflectivity(raw),
     source        |-> src,
     field         |-> fld,
     station       |-> st]

\* extractPrecipitationData, body of the inner loop: pop is the period's
\* probabilityOfPrecipitation.value (percent), cs = (cos angle, sin angle)
StationPoint(station, pop, rRadius, rRefl, cs) ==
    LET radius       == Mul(rRadius, 2 * Scale)
        lat          == station.lat + Mul(radius, cs[1])
        lon          == station.lon + Mul(radius, cs[2])
        reflectivity == pop * Scale + Mul(rRefl, 20 * Scale)
    IN  ScraperPoint(lon, lat, Min(reflectivity, 50 * Scale), reflectivity,
                     Undefined, Undefined, station.id)

\* Math.max(20, Math.min(50, reflectivity)) of generateThunderstormCell
ThunderstormClamp(reflectivity) == Max(20 * Scale, Min(50 * Scale, reflectivity))

\* generateThunderstormCell, body of the loop
ThunderstormPoint(station, rIntensity, rRadius, rRefl, cs) ==
    LET intensity    == 30 * Scale + Mul(rIntensity, 20 * Scale)
        radius       == Mul(rRadius, (3 * Scale) \div 2)
        lat          == station.lat + Mul(radius, cs[1])
        lon          == station.lon + Mul(radius, cs[2])
        reflectivity == intensity + Mul(rRefl - Scale \div 2, 10 * Scale)
    IN  ScraperPoint(lon, lat, ThunderstormClamp(reflectivity), reflectivity,
                     Undefined, Undefined, station.id)

\* generateWeatherFront, body of the loop: point i of numPoints
FrontPoint(station, i, numPoints, rLength, rRefl, cs) ==
    LET length       == 2 * Scale + Mul(rLength, 3 * Scale)
        distance     == (i * length) \div numPoints
        lat          == station.lat + Mul(distance, cs[1])
        lon          == station.lon + Mul(distance, cs[2])
        reflectivity == 25 * Scale + Mul(rRefl, 15 * Scale)
    IN  ScraperPoint(lon, lat, Max(20 * Scale, Min(40 * Scale, reflectivity)),
                     reflectivity, Undefined, Undefined, station.id)

\* generateScatteredShowers, body of the loop
ShowerPoint(station, rLat, rLon, rRefl) ==
    LET lat          == station.lat + Mul(rLat - Scale \div 2, 4 * Scale)
        lon          == station.lon + Mul(rLon - Scale \div 2, 4 * Scale)
        reflectivity == 15 * Scale + Mul(rRefl, 20 * Scale)
    IN  ScraperPoint(lon, lat, Max(10 * Scale, Min(35 * Scale, reflectivity)),
                     reflectivity, Undefined, Undefined, station.id)

\* numPoints of the three generators
ThunderstormNumPoints(r) == Floor(r * 8) + 5
FrontNumPoints(r)        == Floor(r * 15) + 10
ShowersNumPointsWide(r)  == Floor(r * 30) + 8
ShowersNumPoints(r)      == Floor(r * 12) + 8

-----------------------------------------------------------------------------
(* RadarScraper.convertGRIB2ToRadarPoints *)

\* field names of a decoded file; the first two contain BREF or REFL
FieldNames == {"BREF_1HR_MAX", "REFL_COMPOSITE", "PrecipRate"}

\* fieldName.includes('BREF') || fieldName.includes('REFL'), on FieldNames
IsReflectivityField(fieldName) == fieldName \in {"BREF_1HR_MAX", "REFL_COMPOSITE"}

\* value === null || value === undefined || isNaN(value) || value < 0
IsInvalidValue(value) ==
    IF value.t \in {"null", "undefined", "NaN"} THEN TRUE ELSE value.v < 0

\* the reflectivity of a kept sample, with a variant that scales without
\* clamping
GribReflectivityUnclamped(value, fieldName) ==
    IF IsReflectivityField(fieldName)
    THEN value.v
    ELSE value.v * 10

GribReflectivity(value, fieldName) ==
    IF IsReflectivityField(fieldName)
    THEN value.v
    ELSE Max(0, Min(70 * Scale, value.v * 10))

\* array[i]: undefined past the end of the array
At(array, i) == IF i \in DOMAIN array THEN array[i] ELSE Undef

\* the object pushed for sample i of the field; the coordinates are copied
\* from the arrays as they are
GribPoint(fieldData, fieldName, i) ==
    LET reflectivity == GribReflectivity(fieldData.values[i], fieldName)
    IN  ScraperPoint(At(fieldData.longitudes, i), At(fieldData.latitudes, i),
                     reflectivity, reflectivity, "MRMS_GRIB2", fieldName, Undefined)

\* the most points the decoder aims to keep per field
SampleTarget == 1000

sampleRate(fieldData) == Max(1, Len(fieldData.values) \div SampleTarget)

\* for (let i = 0; i < values.length; i += sampleRate): the values i takes
\* (0-based, as in the source), in increasing order
LoopIndices(fieldData) ==
    LET rate  == sampleRate(fieldData)
        taken == {i \in 0..(Len(fieldData.values) - 1) : i % rate = 0}
    IN  [k \in 1..Cardinality(taken) |-> (k - 1) * rate]

\* the points pushed by iterations lo..hi of the loop, in order
RECURSIVE ConvertRange(_, _, _, _, _)
ConvertRange(fieldData, fieldName, indices, lo, hi) ==
    IF lo > hi THEN <<>>
    ELSE IF lo = hi
    THEN (IF IsInvalidValue(fieldData.values[indices[lo] + 1])
          THEN <<>>
          ELSE <<GribPoint(fieldData, fieldName, indices[lo] + 1)>>)
    ELSE LET mid == (lo + hi) \div 2
         IN  ConvertRange(fieldData, fieldName, indices, lo, mid)
               \o ConvertRange(fieldData, fieldName, indices, mid + 1, hi)

\* sequences are 1-based here: JavaScript index i is element i + 1
convertGRIB2ToRadarPoints(fieldData, fieldName) ==
    LET indices == LoopIndices(fieldData)
    IN  ConvertRange(fieldData, fieldName, indices, 1, Len(indices))

-----------------------------------------------------------------------------
(* convertGRIB2ToRadarPoints on one field: decField is the argument,       *)
(* decVisited the indices whose loop body has run, decOut the returned     *)
(* array.  In a decoded file a value or a coordinate is a JSON value:      *)
(* Num(n), Null, or NaN / Undef where the decoder tool or a shorter array  *)
(* leaves a hole.                                                          *)

\* decoded fields: name, the arrays the field has, and the three parallel arrays
Field(name, samples) ==
    [name       |-> name,
     arrays     |-> {"values", "latitudes", "longitudes"},
     values     |-> [i \in DOMAIN samples |-> samples[i][1]],
     latitudes  |-> [i \in DOMAIN samples |-> samples[i][2]],
     longitudes |-> [i \in DOMAIN samples |-> samples[i][3]]]

\* longest field of a decoded file
MaxFieldLen == 2

\* fieldData.values && fieldData.latitudes && fieldData.longitudes
HasArrays(fieldData) == {"values", "latitudes", "longitudes"} \subseteq fieldData.arrays

\* samples (value, latitude, longitude) of the small fields
DecSamples ==
    {<<v, Num(40 * Scale), Num((0 - 100) * Scale)>> :
         v \in {Num(5 * Scale), Num(25 * Scale), Num(0 - Scale), NaN, Null, Undef}}
      \cup {<<Num(15 * Scale), Null, Num((0 - 100) * Scale)>>,
            <<Num(15 * Scale), Num(40 * Scale), NaN>>}

SmallFields ==
    {Field(name, ss) : name \in FieldNames,
                       ss \in UNION {[1..n -> DecSamples] : n \in 0..MaxFieldLen}}

\* a field whose latitudes array is shorter than its values array
ShortLatField ==
    [Field("BREF_1HR_MAX", << <<Num(15 * Scale), Num(40 * Scale), Num((0 - 100) * Scale)>>,
                              <<Num(25 * Scale), Num(41 * Scale), Num((0 - 101) * Scale)>> >>)
        EXCEPT !.latitudes = << Num(40 * Scale) >>]

\* BREF_1HR_MAX with values [5, 15, 25, -1, NaN] and matching coordinates
ScenarioField ==
    Field("BREF_1HR_MAX",
          << <<Num(5 * Scale),  Num(30 * Scale), Num((0 - 90) * Scale)>>,
             <<Num(15 * Scale), Num(31 * Scale), Num((0 - 91) * Scale)>>,
             <<Num(25 * Scale), Num(32 * Scale), Num((0 - 92) * Scale)>>,
             <<Num(0 - Scale),  Num(33 * Scale), Num((0 - 93) * Scale)>>,
             <<NaN,             Num(34 * Scale), Num((0 - 94) * Scale)>> >>)

\* a grid of n samples, every tenth one missing
LargeField(n) ==
    [name       |-> "BREF_1HR_MAX",
     arrays     |-> {"values", "latitudes", "longitudes"},
     values     |-> [i \in 1..n |-> IF i % 10 = 0 THEN Null ELSE Num((i % 60) * Scale)],
     latitudes  |-> [i \in 1..n |-> Num(40 * Scale)],
     longitudes |-> [i \in 1..n |-> Num((0 - 100) * Scale)]]

\* lengths around the multiples of the sampling target
LargeLengths ==
    {SampleTarget - 1, SampleTarget, SampleTarget + 1, 2 * SampleTarget - 1,
     2 * SampleTarget, 3 * SampleTarget + SampleTarget \div 2}

DecoderFields ==
    SmallFields \cup {ShortLatField, ScenarioField} \cup {LargeField(n) : n \in LargeLengths}

NoField == [name |-> Undefined, arrays |-> {}, values |-> <<>>, latitudes |-> <<>>,
            longitudes |-> <<>>]

DecInit ==
    /\ decPc = "idle"
    /\ decField = NoField
    /\ decOut = <<>>
    /\ decVisited = <<>>

\* parseGRIB2File calls convertGRIB2ToRadarPoints(fieldData, fieldName) for a
\* field that has the three arrays
ConvertCall ==
    /\ decPc = "idle"
    /\ \E fieldData \in DecoderFields :
          /\ HasArrays(fieldData)
          /\ decField' = fieldData
    /\ decPc' = "called"
    /\ UNCHANGED <<decOut, decVisited>>

\* the loop runs to its end: return radarPoints
ConvertReturn ==
    /\ decPc = "called"
    /\ decVisited' = LoopIndices(decField)
    /\ decOut' = convertGRIB2ToRadarPoints(decField, decField.name)
    /\ decPc' = "returned"
    /\ UNCHANGED decField

-----------------------------------------------------------------------------
(* RadarProcessor.createMockRadarData: the regional-systems generator *)

RECURSIVE SqrtBetween(_, _, _)
SqrtBetween(n, lo, hi) ==
    IF lo >= hi THEN lo
    ELSE LET mid == (lo + hi + 1) \div 2
         IN  IF mid * mid <= n THEN SqrtBetween(n, mid, hi)
                               ELSE SqrtBetween(n, lo, mid - 1)

\* Math.sqrt(dLat^2 + dLon^2) of two fixed-point differences
Hypot(dLat, dLon) == SqrtBetween(dLat * dLat + dLon * dLon, 0, 200 * Scale)

\* parseFloat(x.toFixed(1)): the nearest tenth
ToFixed1(x) == (((x * 10 + Scale \div 2) \div Scale) * Scale) \div 10

\* one entry of generateWeatherSystems
WeatherSystem(rLat, rLon, rIntensity, rSize) ==
    [centerLat |-> 25 * Scale + Mul(rLat, 20 * Scale),
     centerLon |-> (0 - 120) * Scale + Mul(rLon, 50 * Scale),
     intensity |-> 20 * Scale + Mul(rIntensity, 30 * Scale),
     size      |-> 3 * Scale + Mul(rSize, 8 * Scale)]

\* lat/lon of the pattern chosen by patternType, before the extra jitter
PatternPosition(system, patternType, r1, r2, cs) ==
    IF patternType * 10 < 3 * Scale
    THEN LET radius == Mul(Mul(r1, system.size), 2 * Scale)
         IN  <<system.centerLat + Mul(radius, cs[1]),
               system.centerLon + Mul(radius, cs[2])>>
    ELSE IF patternType * 10 < 6 * Scale
    THEN <<system.centerLat + Mul(Mul(r1 - Scale \div 2, system.size), 4 * Scale),
           system.centerLon + Mul(Mul(r2 - Scale \div 2, system.size), 4 * Scale)>>
    ELSE LET distance == Mul(Mul(r1, system.size), 3 * Scale)
         IN  <<system.centerLat + Mul(distance, cs[1]),
               system.centerLon + Mul(distance, cs[2])>>

\* body of the loop of createMockRadarData: the candidate point, with the
\* unrounded reflectivity (raw) next to the stored, rounded one
MockCandidate(system, patternType, r1, r2, cs, rJitLat, rJitLon, rNoise) ==
    LET pos       == PatternPosition(system, patternType, r1, r2, cs)
        randomLat == pos[1] + Mul(rJitLat - Scale \div 2, 5 * Scale)
        randomLon == pos[2] + Mul(rJitLon - Scale \div 2, 5 * Scale)
        distanceFromCenter ==
            Hypot(randomLat - system.centerLat, randomLon - system.centerLon)
        baseReflectivity ==
            Mul(system.intensity, Scale - (distanceFromCenter * Scale) \div system.size)
        reflectivity ==
            Max(5 * Scale, baseReflectivity + Mul(rNoise - Scale \div 2, 10 * Scale))
    IN  [lat |-> randomLat, lon |-> randomLon, raw |-> reflectivity,
         kept |-> /\ reflectivity > 10 * Scale
                  /\ randomLat >= 24 * Scale /\ randomLat <= 49 * Scale
                  /\ randomLon >= (0 - 125) * Scale /\ randomLon <= (0 - 66) * Scale]

\* the feature built for a kept candidate: precipitation from the unrounded
\* reflectivity (radarPoints.push), color from the rounded one (features map)
MockFeature(c) ==
    [coordinates   |-> <<c.lon, c.lat>>,
     reflectivity  |-> ToFixed1(c.raw),
     precipitation |-> reflectivityToPrecipitation(c.raw),
     color         |-> Processor_getColorForReflectivity(ToFixed1(c.raw)),
     source        |-> Undefined,
     field         |-> Undefined,
     station       |-> Undefined]

\* the identifiers the module scope of radarProcessor.js declares
ProcessorScope == {"fs", "path", "RadarProcessor"}

\* the return statement of createMockRadarData evaluates the shorthand
\* properties minLat, maxLat, minLon, maxLon, none of which is declared:
\* the first of them raises ReferenceError and nothing is returned
createMockRadarDataOutcome ==
    IF {"minLat", "maxLat", "minLon", "maxLon"} \subseteq ProcessorScope
    THEN "returned"
    ELSE "ReferenceError"

-----------------------------------------------------------------------------
(* Point specification: one point through each generator, decoder and      *)
(* fetcher.  emitted is the point handed to the caller, built the feature  *)
(* createMockRadarData constructs internally.                              *)

\* draws for the regional generator (coarser: it takes eleven of them)
CoarseDraws == {0, Scale \div 2}

\* draws for the noise term of the regional generator: every tenth of the
\* range [0, 1), shifting the reflectivity by whole dBZ
NoiseDraws == {n \in 0..(Scale - 1) : n % 10 = 0}

\* valid and invalid samples of a decoded field
SampleValues ==
    {Null, NaN, Undef} \cup
    {Num(n) : n \in {0 - Scale, 0, 5 * Scale, 15 * Scale, 25 * Scale,
                     (9 * Scale) \div 2, 47 * Scale, 80 * Scale}}
SampleLats == {20 * Scale, 24 * Scale, 40 * Scale, 49 * Scale, 55 * Scale}
SampleLons == {(0 - 130) * Scale, (0 - 125) * Scale, (0 - 100) * Scale,
               (0 - 66) * Scale, (0 - 60) * Scale}

\* probabilityOfPrecipitation.value of a forecast period (percent)
PopValues == {10, 30, 45, 100}

PointInit ==
    /\ emitted = NoPoint
    /\ built = NoPoint
    /\ procError = "none"

Idle == emitted = NoPoint /\ built = NoPoint /\ procError = "none"

EmitGribPoint ==
    /\ Idle
    /\ \E v \in SampleValues, lat \in SampleLats, lon \in SampleLons, f \in FieldNames :
          LET fieldData == [name |-> f, arrays |-> {"values", "latitudes", "longitudes"},
                            values |-> <<v>>, latitudes |-> <<lat>>, longitudes |-> <<lon>>]
              points    == convertGRIB2ToRadarPoints(fieldData, f)
          IN  /\ Len(points) > 0
              /\ emitted' = points[1]
    /\ UNCHANGED <<built, procError>>

EmitStationPoint ==
    /\ Idle
    /\ \E i \in 1..5, pop \in PopValues, r1 \in RandomDraws, r2 \in RandomDraws,
          cs \in UnitCircle :
          emitted' = StationPoint(getRadarStations[i], pop, r1, r2, cs)
    /\ UNCHANGED <<built, procError>>

EmitThunderstormPoint ==
    /\ Idle
    /\ \E i \in DOMAIN getRadarStations, r1 \in RandomDraws, r2 \in RandomDraws,
          r3 \in RandomDraws, cs \in UnitCircle :
          emitted' = ThunderstormPoint(getRadarStations[i], r1, r2, r3, cs)
    /\ UNCHANGED <<built, procError>>

EmitFrontPoint ==
    /\ Idle
    /\ \E i \in DOMAIN getRadarStations, rn \in RandomDraws, r1 \in RandomDraws,
          r2 \in RandomDraws, cs \in UnitCircle :
          \E k \in {0, FrontNumPoints(rn) - 1} :
              emitted' = FrontPoint(getRadarStations[i], k, FrontNumPoints(rn), r1, r2, cs)
    /\ UNCHANGED <<built, procError>>

EmitShowerPoint ==
    /\ Idle
    /\ \E i \in DOMAIN getRadarStations, r1 \in RandomDraws, r2 \in RandomDraws,
          r3 \in RandomDraws :
          emitted' = ShowerPoint(getRadarStations[i], r1, r2, r3)
    /\ UNCHANGED <<built, procError>>

\* createMockRadarData: a kept candidate becomes a feature, then the return
\* statement throws and the caller receives no point
CreateMockRadarData ==
    /\ Idle
    /\ \E rLat \in CoarseDraws, rLon \in CoarseDraws, rInt \in RandomDraws,
          rSize \in CoarseDraws, pt \in RandomDraws, r1 \in CoarseDraws,
          r2 \in CoarseDraws, cs \in UnitCircle, j1 \in CoarseDraws,
          j2 \in CoarseDraws, rNoise \in NoiseDraws :
          LET c == MockCandidate(WeatherSystem(rLat, rLon, rInt, rSize),
                                 pt, r1, r2, cs, j1, j2, rNoise)
          IN  /\ c.kept
              /\ built' = MockFeature(c)
              /\ procError' = createMockRadarDataOutcome
              /\ emitted' = IF createMockRadarDataOutcome = "returned"
                            THEN MockFeature(c) ELSE emitted

-----------------------------------------------------------------------------
(* RadarScraper: the three fetch strategies, as functions of what the      *)
(* network and the decoder tools answer                                    *)

Throw         == [kind |-> "throw", data |-> <<>>]
Return(data)  == [kind |-> "return", data |-> data]

\* --- primary: getMRMSNcepData -> parseMRMSDirectory -> downloadAndParseGRIB2

\* href targets of a directory listing: name, extension, name.includes('latest')
Href(name, ext, latest) == [name |-> name, ext |-> ext, latest |-> latest]

Listings ==
    LET other  == Href("index.html", "html", FALSE)
        dated  == Href("MRMS_BREF_1HR_MAX_00.50_20240115-120000.grib2.gz", "grib2.gz", FALSE)
        latest == Href("MRMS_BREF_1HR_MAX.latest.grib2.gz", "grib2.gz", TRUE)
        plain  == Href("MRMS_BREF_1HR_MAX.grib2", "grib2", FALSE)
    IN  {<<>>, <<other>>, <<dated>>, <<plain, dated>>, <<other, dated, latest>>}

\* the four href patterns, by the extensions each matches
Patterns == << {"grib2.gz"}, {"grib2.gz", "grib2"}, {"grib2.gz", "grib2", "grib"}, {"grb"} >>

RECURSIVE MatchesFrom(_, _)
MatchesFrom(htmlContent, k) ==
    IF k > Len(Patterns) THEN <<>>
    ELSE SelectSeq(htmlContent, LAMBDA h : h.ext \in Patterns[k])
             \o MatchesFrom(htmlContent, k + 1)

\* files: every match of every pattern, pattern by pattern
CandidateFiles(htmlContent) == MatchesFrom(htmlContent, 1)

\* files.find(f => f.includes('latest')) || files[0]
latestFile(files) ==
    LET withLatest == SelectSeq(files, LAMBDA h : h.latest)
    IN  IF Len(withLatest) > 0 THEN withLatest[1] ELSE files[1]

PipeSamples == {NaN, Num(15 * Scale), Num(25 * Scale)} \X {40 * Scale, 55 * Scale} \X {(0 - 100) * Scale}

SampleSeqs == UNION {[1..n -> PipeSamples] : n \in 0..MaxFieldLen}

Fields == {Field(name, ss) : name \in {"BREF_1HR_MAX", "PrecipRate"}, ss \in SampleSeqs}

\* a field without a latitudes array: skipped by parseGRIB2File
NoLatField == [name |-> "Header", arrays |-> {"values", "longitudes"},
               values |-> <<Num(15 * Scale)>>, latitudes |-> <<>>,
               longitudes |-> <<(0 - 100) * Scale>>]

DecodedFiles ==
    {<<>>} \cup {<<f>> : f \in Fields} \cup {<<NoLatField, f>> : f \in Fields}
        \cup {<<f, Field("REFL_COMPOSITE", << <<Num(5 * Scale), 30 * Scale, (0 - 90) * Scale>> >>)>> :
                 f \in Fields}

\* what the download, gunzip, grib2json and JSON.parse steps answer
DownloadAnswers ==
    {[kind |-> "error", stage |-> st, data |-> <<>>] :
        st \in {"download", "write", "gunzip", "grib2json", "jsonParse"}}
      \cup {[kind |-> "ok", stage |-> "done", data |-> d] : d \in DecodedFiles}

RECURSIVE ParseFieldsFrom(_, _)
ParseFieldsFrom(data, k) ==
    IF k > Len(data) THEN <<>>
    ELSE (IF HasArrays(data[k])
          THEN convertGRIB2ToRadarPoints(data[k], data[k].name)
          ELSE <<>>) \o ParseFieldsFrom(data, k + 1)

\* parseGRIB2File after grib2json: the points of every qualifying field
parseGRIB2File(data) == ParseFieldsFrom(data, 1)

\* downloadAndParseGRIB2: any failing step rethrows
downloadAndParseGRIB2(answer) ==
    IF answer.kind = "error" THEN Throw ELSE Return(parseGRIB2File(answer.data))

\* if (files.length > 0), with a variant that tries a download whatever the
\* listing holds
DownloadsAlways(htmlContent) == TRUE

DownloadsFile(htmlContent) == Len(CandidateFiles(htmlContent)) > 0

\* parseMRMSDirectory: the inner try/catch turns a failed download or decode
\* into an empty list
parseMRMSDirectory(htmlContent, answer) ==
    IF DownloadsFile(htmlContent)
    THEN LET r == downloadAndParseGRIB2(answer)
         IN  IF r.kind = "throw" THEN Return(<<>>) ELSE Return(r.data)
    ELSE Return(<<>>)

\* requests for a grid file that parseMRMSDirectory issues
parseMRMSDirectoryDownloads(htmlContent) ==
    IF DownloadsFile(htmlContent) THEN 1 ELSE 0

\* what the directory request answers
DirectoryAnswers ==
    {[kind |-> "error", listing |-> <<>>]} \cup {[kind |-> "ok", listing |-> l] : l \in Listings}

getMRMSNcepData(dir, answer) ==
    IF dir.kind = "error" THEN Throw ELSE parseMRMSDirectory(dir.listing, answer)

\* paths in this.downloadDir: path.join(downloadDir, filename), the same
\* without '.gz', and that one with '.json' appended
tempFile(file)     == [name |-> file.name, gz |-> file.ext = "grib2.gz", json |-> FALSE]
tempGribFile(file) == [name |-> file.name, gz |-> FALSE, json |-> FALSE]
jsonFile(file)     == [name |-> file.name, gz |-> FALSE, json |-> TRUE]

\* files of downloadAndParseGRIB2 left in the directory when it finishes:
\* the fs.remove calls run only after every earlier step succeeded; partial
\* says whether the failing writer left its output behind
FilesLeft(file, answer, partial) ==
    CASE answer.kind = "ok"         -> {}
      [] answer.stage = "download"  -> {}
      [] answer.stage = "write"     -> IF partial THEN {tempFile(file)} ELSE {}
      [] answer.stage = "gunzip"    -> {tempFile(file)}
      [] answer.stage = "grib2json" ->
             {tempFile(file), tempGribFile(file)}
                 \cup (IF partial THEN {jsonFile(file)} ELSE {})
      [] answer.stage = "jsonParse" ->
             {tempFile(file), tempGribFile(file), jsonFile(file)}

\* the directory after getMRMSNcepData
DownloadDirAfter(dir, answer, partial) ==
    IF dir.kind = "ok" /\ DownloadsFile(dir.listing)
    THEN FilesLeft(latestFile(CandidateFiles(dir.listing)), answer, partial)
    ELSE {}

NoOutcome == [kind |-> "none", data |-> <<>>]
NoCall    == [dir |-> [kind |-> "none", listing |-> <<>>],
              answer |-> [kind |-> "none", stage |-> "none", data |-> <<>>]]

PrimInit ==
    /\ primPc = "idle"
    /\ primIn = NoCall
    /\ primOut = NoOutcome
    /\ downloadDir = {}

\* one call of getMRMSNcepData, from the directory request to its answer
CallPrimary ==
    /\ primPc = "idle"
    /\ \E dir \in DirectoryAnswers, answer \in DownloadAnswers, partial \in BOOLEAN :
          /\ primIn' = [dir |-> dir, answer |-> answer]
          /\ primOut' = getMRMSNcepData(dir, answer)
          /\ downloadDir' = DownloadDirAfter(dir, answer, partial)
    /\ primPc' = "returned"

\* --- secondary: getMRMSViewerData -> processMRMSProducts

processMRMSProducts(products) == <<>>

getMRMSViewerData(response) ==
    IF response = "error" THEN Throw ELSE Return(processMRMSProducts(response))

\* --- tertiary: getNWSRadarData -> getStationRadarData -> extractPrecipitationData

nwsApiUrl == "https://api.weather.gov"

\* this.baseUrl: the constructor never assigns it
baseUrl == Undefined

\* axios.get on `${base}/...`: a request whose base is not a URL fails before
\* any server is asked
HttpGet(base, answer) == IF base = Undefined THEN "error" ELSE answer

\* most stations queried per run
StationLimit == 5

\* (cos, sin) of 2*pi*i/numPoints, at the resolution of twelve directions
Directions ==
    LET a == (3 * Scale) \div 5
        b == (4 * Scale) \div 5
    IN  << <<Scale, 0>>, <<b, a>>, <<a, b>>, <<0, Scale>>, <<0 - a, b>>, <<0 - b, a>>,
           <<0 - Scale, 0>>, <<0 - b, 0 - a>>, <<0 - a, 0 - b>>, <<0, 0 - Scale>>,
           <<a, 0 - b>>, <<b, 0 - a>> >>

AngleOf(i, numPoints) == Directions[((12 * i) \div numPoints) + 1]

\* the points of one period with a positive probability; draws holds the
\* Math.random() results (n, radius, refl), the same for every point
PeriodPoints(station, pop, draws) ==
    LET numPoints == Floor(draws.n * 10) + 5
    IN  [i \in 1..numPoints |->
            StationPoint(station, pop, draws.radius, draws.refl, AngleOf(i - 1, numPoints))]

RECURSIVE PeriodsFrom(_, _, _, _)
PeriodsFrom(station, periods, k, draws) ==
    IF k > Min(3, Len(periods)) THEN <<>>
    ELSE (IF periods[k].t = "number" /\ periods[k].v > 0
          THEN PeriodPoints(station, periods[k].v, draws)
          ELSE <<>>) \o PeriodsFrom(station, periods, k + 1, draws)

\* forecastData.properties.periods as the sequence of their
\* probabilityOfPrecipitation.value
extractPrecipitationData(periods, station, draws) == PeriodsFrom(station, periods, 1, draws)

\* what the two NWS requests of one station answer
StationAnswers ==
    {[points |-> "error", forecast |-> "error", periods |-> <<>>],
     [points |-> "ok", forecast |-> "error", periods |-> <<>>],
     [points |-> "ok", forecast |-> "ok", periods |-> <<Null, Num(0)>>],
     [points |-> "ok", forecast |-> "ok", periods |-> <<Num(30), Null, Num(100), Num(60)>>]}

\* getStationRadarData: every error is caught and becomes []
getStationRadarData(station, answer, draws) ==
    IF HttpGet(baseUrl, answer.points) = "error" THEN <<>>
    ELSE IF answer.forecast = "error" THEN <<>>
    ELSE extractPrecipitationData(answer.periods, station, draws)

RECURSIVE StationsFrom(_, _, _)
StationsFrom(k, answers, draws) ==
    IF k > Min(StationLimit, Len(getRadarStations)) THEN <<>>
    ELSE getStationRadarData(getRadarStations[k], answers[k], draws)
             \o StationsFrom(k + 1, answers, draws)

getNWSRadarData(answers, draws) == Return(StationsFrom(1, answers, draws))

\* the NWS servers answer both requests of a station, with a positive
\* probabilityOfPrecipitation.value in one of the first three periods
ServesRain(answer) ==
    /\ answer.points = "ok"
    /\ answer.forecast = "ok"
    /\ \E k \in 1..Min(3, Len(answer.periods)) :
           answer.periods[k].t = "number" /\ answer.periods[k].v > 0

\* getStationRadarData reaches its catch block: one of the two requests fails
StationRequestFails(answer) ==
    \/ HttpGet(baseUrl, answer.points) = "error"
    \/ answer.forecast = "error"

\* one call of getStationRadarData by the loop of getNWSRadarData: the
\* station, whether a request failed, and the points the call handed back
StationCall(station, answer, draws) ==
    [station |-> station.id,
     failed  |-> StationRequestFails(answer),
     points  |-> Len(getStationRadarData(station, answer, draws))]

\* the calls of the loop, with a variant whose loop ends at the first
\* failing station
RECURSIVE StationCallsUntilFailure(_, _, _)
StationCallsUntilFailure(k, answers, draws) ==
    IF k > Min(StationLimit, Len(getRadarStations)) THEN <<>>
    ELSE IF StationRequestFails(answers[k]) THEN <<>>
    ELSE <<StationCall(getRadarStations[k], answers[k], draws)>>
             \o StationCallsUntilFailure(k + 1, answers, draws)

RECURSIVE StationCallsFrom(_, _, _)
StationCallsFrom(k, answers, draws) ==
    IF k > Min(StationLimit, Len(getRadarStations)) THEN <<>>
    ELSE <<StationCall(getRadarStations[k], answers[k], draws)>>
             \o StationCallsFrom(k + 1, answers, draws)

-----------------------------------------------------------------------------
(* RadarScraper.getEnhancedMockData: the per-station generator.  The model *)
(* keeps the length of mockData and the number of points the last station  *)
(* pushed; the points themselves are the ones of the point specification.  *)

MockStationsNone == <<>>

\* const stations = this.getRadarStations()
MockStations == getRadarStations

\* the generator chosen by systemType and the number of points it pushes
StationNumPoints(systemType, rN) ==
    IF systemType * 10 < 3 * Scale THEN ThunderstormNumPoints(rN)
    ELSE IF systemType * 10 < 6 * Scale THEN FrontNumPoints(rN)
    ELSE ShowersNumPoints(rN)

-----------------------------------------------------------------------------
(* RadarScraper.getLatestRadarData: one run of the fallback chain *)

NoReturn == [from |-> "none", len |-> 0, points |-> <<>>]

\* what Method 1 exchanged with the directory server: the answer to the
\* listing request and the number of file requests issued
NoIo == [dir |-> [kind |-> "none", listing |-> <<>>], downloads |-> 0]

getMRMSNcepDataIo(dir) ==
    [dir |-> dir,
     downloads |-> IF dir.kind = "error" THEN 0
                   ELSE parseMRMSDirectoryDownloads(dir.listing)]

\* no call of the decoder tool is awaited
NoPending == [dir |-> [kind |-> "none", listing |-> <<>>],
              answer |-> [kind |-> "none", stage |-> "none", data |-> <<>>]]

Chain == <<"primary", "secondary", "tertiary", "synthetic">>

\* try { radarData = await strategy(); if (radarData.length > 0) return radarData }
\* catch (error) { console.warn(...) }, with a variant testing length > 1
TryStrategyMoreThanOne(outcome) ==
    IF outcome.kind = "throw" THEN "next"
    ELSE IF Len(outcome.data) > 1 THEN "return" ELSE "next"

TryStrategy(outcome) ==
    IF outcome.kind = "throw" THEN "next"
    ELSE IF Len(outcome.data) > 0 THEN "return" ELSE "next"

\* the method tried after each one, with a variant that skips the viewer
NextStateSkipping(state) ==
    CASE state = "TryPrimary"   -> "TryTertiary"
      [] state = "AwaitGrib2json" -> "TryTertiary"
      [] state = "TrySecondary" -> "TryTertiary"
      [] state = "TryTertiary"  -> "Synthetic"

NextState(state) ==
    CASE state = "TryPrimary"   -> "TrySecondary"
      [] state = "AwaitGrib2json" -> "TrySecondary"
      [] state = "TrySecondary" -> "TryTertiary"
      [] state = "TryTertiary"  -> "Synthetic"

PipeInit ==
    /\ pc = "TryPrimary"
    /\ outcomes = <<>>
    /\ result = NoReturn
    /\ propagated = FALSE
    /\ mockStation = 1
    /\ mockCount = 0
    /\ lastStationCount = 0
    /\ pending = NoPending
    /\ mrmsIo = NoIo
    /\ stationCalls = <<>>
    /\ nwsServes = FALSE

\* one method of the chain has answered with outcome
Handle(strategy, outcome) ==
    /\ outcomes' = Append(outcomes, [strategy |-> strategy, kind |-> outcome.kind,
                                     len |-> Len(outcome.data), data |-> outcome.data])
    /\ IF TryStrategy(outcome) = "return"
       THEN /\ result' = [from |-> strategy, len |-> Len(outcome.data),
                          points |-> outcome.data]
            /\ pc' = "Done"
       ELSE /\ result' = result
            /\ pc' = NextState(pc)
    /\ UNCHANGED <<propagated, mockStation, mockCount, lastStationCount>>

\* parseGRIB2File gets as far as await execAsync(`npx grib2json ...`): the
\* listing names a file and the download, the write and the gunzip succeed
ReachesGrib2json(dir, answer) ==
    /\ dir.kind = "ok"
    /\ DownloadsFile(dir.listing)
    /\ answer.stage \notin {"download", "write", "gunzip"}

\* Method 1 up to its answer, or up to the call of the decoder tool: the two
\* axios requests carry timeouts (15 s and 30 s) and settle, the child
\* process is awaited without one
TryPrimary ==
    /\ pc = "TryPrimary"
    /\ \E dir \in DirectoryAnswers, answer \in DownloadAnswers :
          /\ mrmsIo' = getMRMSNcepDataIo(dir)
          /\ UNCHANGED <<stationCalls, nwsServes>>
          /\ IF ReachesGrib2json(dir, answer)
             THEN /\ pc' = "AwaitGrib2json"
                  /\ pending' = [dir |-> dir, answer |-> answer]
                  /\ UNCHANGED <<outcomes, result, propagated, mockStation, mockCount,
                                 lastStationCount>>
             ELSE /\ Handle("primary", getMRMSNcepData(dir, answer))
                  /\ UNCHANGED pending

\* the grib2json child process exits (with an error or with its JSON file)
\* and Method 1 answers
Grib2jsonExits ==
    /\ pc = "AwaitGrib2json"
    /\ Handle("primary", getMRMSNcepData(pending.dir, pending.answer))
    /\ pending' = NoPending
    /\ UNCHANGED <<mrmsIo, stationCalls, nwsServes>>

TrySecondary ==
    /\ pc = "TrySecondary"
    /\ \E response \in {"error", "ok"} :
          Handle("secondary", getMRMSViewerData(response))
    /\ UNCHANGED <<pending, mrmsIo, stationCalls, nwsServes>>

TryTertiary ==
    /\ pc = "TryTertiary"
    /\ \E answers \in [1..StationLimit -> StationAnswers],
          draws \in [n : RandomDraws, radius : {Scale \div 2}, refl : RandomDraws] :
          /\ Handle("tertiary", getNWSRadarData(answers, draws))
          /\ stationCalls' = StationCallsFrom(1, answers, draws)
          /\ nwsServes' = (\E k \in 1..StationLimit : ServesRain(answers[k]))
    /\ UNCHANGED <<pending, mrmsIo>>

\* stations.forEach body of getEnhancedMockData
GenerateStation ==
    /\ pc = "Synthetic"
    /\ mockStation <= Len(MockStations)
    /\ \E systemType \in RandomDraws, rN \in RandomDraws :
          LET n == StationNumPoints(systemType, rN)
          IN  /\ mockCount' = mockCount + n
              /\ lastStationCount' = n
    /\ mockStation' = mockStation + 1
    /\ UNCHANGED <<pc, outcomes, result, propagated, pending, mrmsIo, stationCalls,
                   nwsServes>>

\* return mockData, which getLatestRadarData returns to its caller
ReturnMockData ==
    /\ pc = "Synthetic"
    /\ mockStation > Len(MockStations)
    /\ outcomes' = Append(outcomes, [strategy |-> "synthetic", kind |-> "return",
                                     len |-> mockCount, data |-> <<>>])
    /\ result' = [from |-> "synthetic", len |-> mockCount, points |-> <<>>]
    /\ pc' = "Done"
    /\ UNCHANGED <<propagated, mockStation, mockCount, lastStationCount, pending,
                   mrmsIo, stationCalls, nwsServes>>

-----------------------------------------------------------------------------
(* server/index.js and Database: start-up, the cron callbacks, update      *)
(* cycles, the two store backends and the latest query.                    *)
(* now is a logical clock; timestamps (ISO strings in the code, which      *)
(* order as the instants do) are its values.                               *)

\* last instant of the clock; an instant is one tick of the */5 schedule, so
\* at most MaxTime + 1 cycles start in a behaviour
MaxTime == 1

\* points fetched in one behaviour, all cycles together
MaxRows == 3

\* points getLatestRadarData hands to updateRadarData: a synthetic one and a
\* decoded one
SamplePoints ==
    <<ShowerPoint(getRadarStations[1], 0, 0, 0),
      GribPoint(Field("BREF_1HR_MAX", << <<Num(25 * Scale), 40 * Scale, (0 - 100) * Scale>> >>),
                "BREF_1HR_MAX", 1)>>

\* the lists it returns: one list of each length, the two points alternating
PipelineResults ==
    {[i \in 1..n |-> SamplePoints[2 - (i % 2)]] : n \in 1..MaxRows}

\* radarData.map(point => ({lat: point.coordinates[1], lon: point.coordinates[0], ...}))
radarPoints(radarData) ==
    [i \in DOMAIN radarData |->
        [lat           |-> radarData[i].coordinates[2],
         lon           |-> radarData[i].coordinates[1],
         reflectivity  |-> radarData[i].reflectivity,
         precipitation |-> radarData[i].precipitation,
         color         |-> radarData[i].color]]

\* a row of radar_data; (cycle, idx), the insert that wrote it, stands for
\* the AUTOINCREMENT / SERIAL id
Row(timestamp, point, createdAt, cycle, idx) ==
    [timestamp |-> timestamp, lat |-> point.lat, lon |-> point.lon,
     reflectivity |-> point.reflectivity, precipitation |-> point.precipitation,
     color |-> point.color, created_at |-> createdAt, cycle |-> cycle, idx |-> idx]

SetMax(S) == CHOOSE x \in S : \A y \in S : y <= x
SetMin(S) == CHOOSE x \in S : \A y \in S : x <= y

\* SELECT * FROM radar_data WHERE timestamp = (SELECT MIN(timestamp) ...)
LatestRowsOldest(rows) ==
    {r \in rows : r.timestamp = SetMin({q.timestamp : q \in rows})}

\* SELECT * FROM radar_data WHERE timestamp = (SELECT MAX(timestamp) FROM radar_data)
LatestRows(rows) ==
    {r \in rows : r.timestamp = SetMax({q.timestamp : q \in rows})}

NoRead   == [status |-> "none", timestamp |-> 0, data |-> {}]
NullRead == [status |-> "null", timestamp |-> 0, data |-> {}]

\* Database.getLatestRadarData: null without rows, else rows[0].timestamp
\* (the first row in created_at order) and the mapped rows
getLatestRadarData(rows) ==
    LET found == LatestRows(rows)
    IN  IF found = {} THEN NullRead
        ELSE LET first == CHOOSE r \in found :
                              \A q \in found : q.created_at <= r.created_at
             IN  [status |-> "rows", timestamp |-> first.timestamp, data |-> found]

\* an execution of updateRadarData
NewCycle == [pc |-> "fetching", timestamp |-> 0, points |-> <<>>, total |-> 0,
             next |-> 1, completed |-> 0]

\* points the cycles so far have fetched
Fetched(cs) ==
    LET sum[k \in 0..Len(cs)] == IF k = 0 THEN 0 ELSE sum[k - 1] + cs[k].total
    IN  sum[Len(cs)]

InProgress(c) == c.pc \in {"fetching", "storing", "metadata"}

ServerInit ==
    /\ backend \in {"sqlite", "postgres"}
    /\ dbInitialized = FALSE
    /\ phase = "starting"
    /\ now = 0
    /\ cronFired = 0
    /\ radar_data = {}
    /\ radar_metadata = {}
    /\ cycles = <<>>
    /\ lastRead = NoRead

\* initializeDatabase() resolves and its .then callback calls updateRadarData()
InitializeDatabase ==
    /\ phase = "starting"
    /\ dbInitialized' = TRUE
    /\ phase' = "running"
    /\ cycles' = Append(cycles, NewCycle)
    /\ UNCHANGED <<backend, now, cronFired, radar_data, radar_metadata>>
    /\ lastRead' = NoRead

\* database.init() rejects: process.exit(1)
InitializeDatabaseFails ==
    /\ phase = "starting"
    /\ phase' = "exited"
    /\ UNCHANGED <<backend, dbInitialized, now, cronFired, radar_data, radar_metadata,
                   cycles>>
    /\ lastRead' = NoRead

\* the clock reaches the next instant of the */5 schedule; the callback of
\* the current instant has run by then
Tick ==
    /\ phase # "exited"
    /\ now < MaxTime
    /\ cronFired = now
    /\ now' = now + 1
    /\ UNCHANGED <<backend, dbInitialized, phase, cronFired, radar_data, radar_metadata,
                   cycles>>
    /\ lastRead' = NoRead

\* cron.schedule('*/5 * * * *'): the callback of one due instant, with a
\* variant that lacks the test of dbInitialized
CronUpdateUnguarded ==
    /\ phase # "exited"
    /\ cronFired < now
    /\ cronFired' = now
    /\ cycles' = Append(cycles, NewCycle)
    /\ UNCHANGED <<backend, dbInitialized, phase, now, radar_data, radar_metadata>>
    /\ lastRead' = NoRead

CronUpdate ==
    /\ phase # "exited"
    /\ cronFired < now
    /\ cronFired' = now
    /\ IF dbInitialized
       THEN cycles' = Append(cycles, NewCycle)
       ELSE cycles' = cycles
    /\ UNCHANGED <<backend, dbInitialized, phase, now, radar_data, radar_metadata>>
    /\ lastRead' = NoRead

\* await radarScraper.getLatestRadarData() returns; the cycle takes its
\* timestamp, maps the points and calls database.storeRadarData
FetchReturns(c) ==
    /\ cycles[c].pc = "fetching"
    /\ \E radarData \in PipelineResults :
          /\ Len(radarData) + Fetched(cycles) <= MaxRows
          /\ cycles' = [cycles EXCEPT ![c] =
                           IF Len(radarData) = 0
                           THEN [@ EXCEPT !.pc = "done"]
                           ELSE [@ EXCEPT !.pc = "storing", !.timestamp = now,
                                          !.points = radarPoints(radarData),
                                          !.total = Len(radarData)]]
    /\ UNCHANGED <<backend, dbInitialized, phase, now, cronFired, radar_data,
                   radar_metadata>>
    /\ lastRead' = NoRead

\* storeRadarDataSQLite: one stmt.run per point, each its own implicit
\* transaction; the promise resolves with the last callback and rejects with
\* the first error, while the runs already queued still execute
InsertRowSQLite(c) ==
    /\ backend = "sqlite"
    /\ cycles[c].next <= Len(cycles[c].points)
    /\ \E ok \in BOOLEAN :
          LET cy == cycles[c]
          IN  IF ok
              THEN /\ radar_data' = radar_data \cup
                          {Row(cy.timestamp, cy.points[cy.next], now, c, cy.next)}
                   /\ cycles' = [cycles EXCEPT ![c] =
                          [@ EXCEPT !.next = cy.next + 1,
                                    !.completed = cy.completed + 1,
                                    !.pc = IF cy.pc = "storing"
                                              /\ cy.completed + 1 = Len(cy.points)
                                           THEN "metadata" ELSE cy.pc]]
              ELSE /\ UNCHANGED radar_data
                   /\ cycles' = [cycles EXCEPT ![c] =
                          [@ EXCEPT !.next = cy.next + 1,
                                    !.pc = IF cy.pc = "storing" THEN "failed" ELSE cy.pc]]
    /\ UNCHANGED <<backend, dbInitialized, phase, now, cronFired, radar_metadata>>
    /\ lastRead' = NoRead

\* storeRadarDataPostgreSQL: one multi-row INSERT statement
InsertAllPostgreSQL(c) ==
    /\ backend = "postgres"
    /\ cycles[c].pc = "storing"
    /\ \E ok \in BOOLEAN :
          LET cy == cycles[c]
              n  == Len(cy.points)
          IN  IF ok
              THEN /\ radar_data' = radar_data \cup
                          {Row(cy.timestamp, cy.points[i], now, c, i) :
                               i \in 1..n}
                   /\ cycles' = [cycles EXCEPT ![c] =
                          [@ EXCEPT !.next = n + 1, !.completed = n, !.pc = "metadata"]]
              ELSE /\ UNCHANGED radar_data
                   /\ cycles' = [cycles EXCEPT ![c] = [@ EXCEPT !.pc = "failed"]]
    /\ UNCHANGED <<backend, dbInitialized, phase, now, cronFired, radar_metadata>>
    /\ lastRead' = NoRead

\* storeRadarMetadata(timestamp, 'MRMS_Data', radarData.length, bounds)
StoreMetadata(c) ==
    /\ cycles[c].pc = "metadata"
    /\ \E ok \in BOOLEAN :
          IF ok
          THEN /\ radar_metadata' = radar_metadata \cup
                      {[timestamp |-> cycles[c].timestamp, source_file |-> "MRMS_Data",
                        total_points |-> cycles[c].total, created_at |-> now, cycle |-> c]}
               /\ cycles' = [cycles EXCEPT ![c] = [@ EXCEPT !.pc = "done"]]
          ELSE /\ UNCHANGED radar_metadata
               /\ cycles' = [cycles EXCEPT ![c] = [@ EXCEPT !.pc = "failed"]]
    /\ UNCHANGED <<backend, dbInitialized, phase, now, cronFired, radar_data>>
    /\ lastRead' = NoRead

\* --- retention: cron.schedule('0 * * * *') -> database.cleanupOldData(24)

\* instants of the clock in a day
TicksPerDay == 2

\* the argument of database.cleanupOldData in the cron callback
hoursToKeep == 24

HoursPerDay == 24

\* hoursToKeep * 60 * 60 * 1000 milliseconds, in instants
RetentionTicks == (hoursToKeep * TicksPerDay) \div HoursPerDay

\* the character between date and time: ' ' in what CURRENT_TIMESTAMP stores
\* in SQLite ('YYYY-MM-DD HH:MM:SS'), 'T' in Date.toISOString()
\* ('YYYY-MM-DDTHH:MM:SS.sssZ'), by character code
SpaceChar == 32
LetterT == 84

\* the two texts of an instant: date, separator, time of day
SqliteCurrentTimestamp(t) == <<t \div TicksPerDay, SpaceChar, t % TicksPerDay>>
toISOString(t) == <<t \div TicksPerDay, LetterT, t % TicksPerDay>>

\* text comparison, as SQLite compares two TEXT values: position by position
TextLess(a, b) ==
    \/ a[1] < b[1]
    \/ a[1] = b[1] /\ a[2] < b[2]
    \/ a[1] = b[1] /\ a[2] = b[2] /\ a[3] < b[3]

\* new Date(Date.now() - hoursToKeep * 60 * 60 * 1000)
cutoffTime(t) == t - RetentionTicks

\* DELETE ... WHERE created_at < ?  with the ISO text of the cutoff: SQLite
\* compares the stored text with the parameter text, PostgreSQL casts the
\* parameter to TIMESTAMP and compares instants
DeletedSQLite(rows, t) ==
    {r \in rows : TextLess(SqliteCurrentTimestamp(r.created_at), toISOString(cutoffTime(t)))}

DeletedPostgreSQL(rows, t) == {r \in rows : r.created_at < cutoffTime(t)}

CleanupDone   == [status |-> "cleanup", timestamp |-> 0, data |-> {}]
CleanupFailed == [status |-> "cleanupError", timestamp |-> 0, data |-> {}]

\* the hourly callback: if (dbInitialized) database.cleanupOldData(24).
\* SQLite runs both DELETEs whatever the other does and rejects on the first
\* error; PostgreSQL awaits them in turn and stops at the first error.
\* lastRead records how the promise settled.
CleanupOldData ==
    /\ dbInitialized
    /\ phase = "running"
    /\ \E ok1 \in BOOLEAN, ok2 \in BOOLEAN :
          LET second == IF backend = "sqlite" THEN ok2 ELSE ok1 /\ ok2
              gone1  == IF backend = "sqlite" THEN DeletedSQLite(radar_data, now)
                        ELSE DeletedPostgreSQL(radar_data, now)
              gone2  == IF backend = "sqlite" THEN DeletedSQLite(radar_metadata, now)
                        ELSE DeletedPostgreSQL(radar_metadata, now)
          IN  /\ radar_data' = IF ok1 THEN radar_data \ gone1 ELSE radar_data
              /\ radar_metadata' = IF second THEN radar_metadata \ gone2
                                   ELSE radar_metadata
              /\ lastRead' = IF ok1 /\ ok2 THEN CleanupDone ELSE CleanupFailed
    /\ UNCHANGED <<backend, dbInitialized, phase, now, cronFired, cycles>>

\* a store as some earlier cycles and cleanups left it, for the retention
\* runs: at most one data row and one metadata row per instant up to now
MaxCleanupTime == 2 * TicksPerDay

StoredRowAt(t) == Row(t, radarPoints(<<SamplePoints[1]>>)[1], t, t + 1, 1)

StoredMetadataAt(t) ==
    [timestamp |-> t, source_file |-> "MRMS_Data", total_points |-> 1,
     created_at |-> t, cycle |-> t + 1]

CleanupInit ==
    /\ backend \in {"sqlite", "postgres"}
    /\ dbInitialized = TRUE
    /\ phase = "running"
    /\ now \in 0..MaxCleanupTime
    /\ cronFired = now
    /\ radar_data \in SUBSET {StoredRowAt(t) : t \in 0..MaxCleanupTime}
    /\ \A r \in radar_data : r.created_at <= now
    /\ radar_metadata \in SUBSET {StoredMetadataAt(t) : t \in 0..MaxCleanupTime}
    /\ \A m \in radar_metadata : m.created_at <= now
    /\ cycles = <<>>
    /\ lastRead = NoRead

\* database.getLatestRadarData(), called by /api/radar/latest and /status;
\* lastRead is the answer of the request served by the step just taken, and
\* every other step leaves none
GetLatest ==
    /\ dbInitialized
    /\ phase = "running"
    /\ lastRead' = getLatestRadarData(radar_data)
    /\ UNCHANGED <<backend, dbInitialized, phase, now, cronFired, radar_data,
                   radar_metadata, cycles>>

\* app.listen runs in the .then of initializeDatabase(): the port is open
\* only once the database is initialized
Listening == phase = "running"

\* what a client gets while the port is closed
ConnectionRefused ==
    [status |-> "refused", timestamp |-> 0, data |-> {}, code |-> 0,
     body |-> [error |-> "ECONNREFUSED"]]

\* res.status(code).json(body)
HttpResponse(code, body) ==
    [status |-> "http", timestamp |-> 0, data |-> {}, code |-> code, body |-> body]

\* point => ({type: 'Feature', geometry: {...}, properties: {...}})
Feature(point) ==
    [type       |-> "Feature",
     geometry   |-> [type |-> "Point", coordinates |-> <<point.lon, point.lat>>],
     properties |-> [reflectivity  |-> point.reflectivity,
                     precipitation |-> point.precipitation,
                     color         |-> point.color]]

\* geoJsonData: features is latestData.data.map(...), one feature per row
geoJsonData(latestData) ==
    [type     |-> "FeatureCollection",
     features |-> [r \in latestData.data |-> Feature(r)],
     metadata |-> [timestamp   |-> latestData.timestamp,
                   totalPoints |-> Cardinality(latestData.data)]]

\* the handler of /api/radar/latest; queryOk = FALSE is the query rejecting
LatestHandler(initialized, queryOk, rows) ==
    IF ~initialized
    THEN HttpResponse(503, [error |-> "Database not initialized"])
    ELSE IF ~queryOk
    THEN HttpResponse(500, [error |-> "Internal server error"])
    ELSE LET latestData == getLatestRadarData(rows)
         IN  IF latestData = NullRead
             THEN HttpResponse(404, [error |-> "No radar data available"])
             ELSE HttpResponse(200, geoJsonData(latestData))

\* a client sends GET /api/radar/latest
GetApiRadarLatest ==
    /\ \E queryOk \in BOOLEAN :
          lastRead' = IF Listening
                      THEN LatestHandler(dbInitialized, queryOk, radar_data)
                      ELSE ConnectionRefused
    /\ UNCHANGED <<backend, dbInitialized, phase, now, cronFired, radar_data,
                   radar_metadata, cycles>>

-----------------------------------------------------------------------------
(* Specifications *)

ClsRest   == clsIn = <<0, 0>> /\ clsOut = <<NoResult, NoResult>>
ServerRest ==
    /\ backend = "sqlite" /\ dbInitialized = FALSE /\ phase = "starting" /\ now = 0
    /\ cronFired = 0 /\ radar_data = {} /\ radar_metadata = {}
    /\ cycles = <<>> /\ lastRead = NoRead

\* the classifier on its inputs
ClsNext == Classify /\ UNCHANGED <<pointVars, pipeVars, serverVars, decVars, primVars>>

InitClassifier == ClsInit /\ PointInit /\ PipeInit /\ ServerRest /\ DecInit /\ PrimInit

SpecClassifier == InitClassifier /\ [][ClsNext]_vars

\* one point through each generator
PointsNext ==
    \/ EmitGribPoint /\ UNCHANGED <<clsVars, pipeVars, serverVars, decVars, primVars>>
    \/ EmitStationPoint /\ UNCHANGED <<clsVars, pipeVars, serverVars, decVars, primVars>>
    \/ EmitThunderstormPoint /\ UNCHANGED <<clsVars, pipeVars, serverVars, decVars, primVars>>
    \/ EmitFrontPoint /\ UNCHANGED <<clsVars, pipeVars, serverVars, decVars, primVars>>
    \/ EmitShowerPoint /\ UNCHANGED <<clsVars, pipeVars, serverVars, decVars, primVars>>
    \/ CreateMockRadarData /\ UNCHANGED <<clsVars, pipeVars, serverVars, decVars, primVars>>

InitPoints == ClsRest /\ PointInit /\ PipeInit /\ ServerRest /\ DecInit /\ PrimInit

SpecPoints == InitPoints /\ [][PointsNext]_vars

\* one run of getLatestRadarData
PipelineNext ==
    \/ TryPrimary /\ UNCHANGED <<clsVars, pointVars, serverVars, decVars, primVars>>
    \/ Grib2jsonExits /\ UNCHANGED <<clsVars, pointVars, serverVars, decVars, primVars>>
    \/ TrySecondary /\ UNCHANGED <<clsVars, pointVars, serverVars, decVars, primVars>>
    \/ TryTertiary /\ UNCHANGED <<clsVars, pointVars, serverVars, decVars, primVars>>
    \/ GenerateStation /\ UNCHANGED <<clsVars, pointVars, serverVars, decVars, primVars>>
    \/ ReturnMockData /\ UNCHANGED <<clsVars, pointVars, serverVars, decVars, primVars>>

InitPipeline == ClsRest /\ PointInit /\ PipeInit /\ ServerRest /\ DecInit /\ PrimInit

SpecPipeline == InitPipeline /\ [][PipelineNext]_vars

\* the same run under the scheduling the code provides: every axios request
\* settles within its timeout and the synchronous generator runs on, so each
\* of these steps is eventually taken once it is due; nothing bounds the wait
\* for the grib2json child process
SpecPipelineFair ==
    /\ SpecPipeline
    /\ WF_vars(TryPrimary /\ UNCHANGED <<clsVars, pointVars, serverVars, decVars, primVars>>)
    /\ WF_vars(TrySecondary /\ UNCHANGED <<clsVars, pointVars, serverVars, decVars, primVars>>)
    /\ WF_vars(TryTertiary /\ UNCHANGED <<clsVars, pointVars, serverVars, decVars, primVars>>)
    /\ WF_vars(GenerateStation /\ UNCHANGED <<clsVars, pointVars, serverVars, decVars, primVars>>)
    /\ WF_vars(ReturnMockData /\ UNCHANGED <<clsVars, pointVars, serverVars, decVars, primVars>>)

\* convertGRIB2ToRadarPoints on one field
DecoderNext ==
    \/ ConvertCall /\ UNCHANGED <<clsVars, pointVars, pipeVars, serverVars, primVars>>
    \/ ConvertReturn /\ UNCHANGED <<clsVars, pointVars, pipeVars, serverVars, primVars>>

\* one call of the primary strategy
PrimaryNext == CallPrimary /\ UNCHANGED <<clsVars, pointVars, pipeVars, serverVars, decVars>>

InitPrimary == ClsRest /\ PointInit /\ PipeInit /\ ServerRest /\ DecInit /\ PrimInit

SpecPrimary == InitPrimary /\ [][PrimaryNext]_vars

InitDecoder == ClsRest /\ PointInit /\ PipeInit /\ ServerRest /\ DecInit /\ PrimInit

SpecDecoder == InitDecoder /\ [][DecoderNext]_vars

\* the server: start-up, cron, update cycles, store and readers
Next ==
    \/ InitializeDatabase /\ UNCHANGED <<clsVars, pointVars, pipeVars, decVars, primVars>>
    \/ InitializeDatabaseFails /\ UNCHANGED <<clsVars, pointVars, pipeVars, decVars, primVars>>
    \/ Tick /\ UNCHANGED <<clsVars, pointVars, pipeVars, decVars, primVars>>
    \/ CronUpdate /\ UNCHANGED <<clsVars, pointVars, pipeVars, decVars, primVars>>
    \/ \E c \in DOMAIN cycles : FetchReturns(c) /\ UNCHANGED <<clsVars, pointVars, pipeVars, decVars, primVars>>
    \/ \E c \in DOMAIN cycles : InsertRowSQLite(c) /\ UNCHANGED <<clsVars, pointVars, pipeVars, decVars, primVars>>
    \/ \E c \in DOMAIN cycles : InsertAllPostgreSQL(c) /\ UNCHANGED <<clsVars, pointVars, pipeVars, decVars, primVars>>
    \/ \E c \in DOMAIN cycles : StoreMetadata(c) /\ UNCHANGED <<clsVars, pointVars, pipeVars, decVars, primVars>>
    \/ GetLatest /\ UNCHANGED <<clsVars, pointVars, pipeVars, decVars, primVars>>
    \/ CleanupOldData /\ UNCHANGED <<clsVars, pointVars, pipeVars, decVars, primVars>>
    \/ GetApiRadarLatest /\ UNCHANGED <<clsVars, pointVars, pipeVars, decVars, primVars>>

Init == ClsRest /\ PointInit /\ PipeInit /\ ServerInit /\ DecInit /\ PrimInit

Spec == Init /\ [][Next]_vars

\* the retention job on a store that already holds rows
CleanupNext == CleanupOldData /\ UNCHANGED <<clsVars, pointVars, pipeVars, decVars, primVars>>

InitCleanup == ClsRest /\ PointInit /\ PipeInit /\ CleanupInit /\ DecInit /\ PrimInit

SpecCleanup == InitCleanup /\ [][CleanupNext]_vars

-----------------------------------------------------------------------------
(* Properties of getLatestRadarData (SpecPipeline) *)

Fetchers == {"primary", "secondary", "tertiary"}

\* a method threw or returned an empty list
Failed(o) == o.kind = "throw" \/ o.len = 0

\* C1: as soon as a fetch strategy returns a non-empty list without throwing,
\* the run is done, returns exactly that list, and no later strategy (the
\* synthetic generator included) is invoked.
C1_ShortCircuit ==
    \A i \in DOMAIN outcomes :
        (outcomes[i].strategy \in Fetchers /\ ~Failed(outcomes[i]))
            => /\ i = Len(outcomes)
               /\ pc = "Done"
               /\ result.from = outcomes[i].strategy
               /\ result.points = outcomes[i].data
               /\ result.len = Len(outcomes[i].data)
               /\ mockStation = 1 /\ mockCount = 0

C1_Witness ==
    /\ pc = "Done"
    /\ result.from = "primary"
    /\ Len(result.points) = 1
    /\ Len(outcomes) = 1

\* C2: the strategies are invoked in the order primary, secondary, tertiary,
\* synthetic, each at most once, and strategy k is invoked if and only if
\* every earlier one threw or returned an empty list.
C2_StrictOrder ==
    /\ Len(outcomes) <= Len(Chain)
    /\ \A i \in DOMAIN outcomes : outcomes[i].strategy = Chain[i]
    /\ \A i \in DOMAIN outcomes : \A j \in 1..(i - 1) : Failed(outcomes[j])
    /\ pc = "TryPrimary" => Len(outcomes) = 0
    /\ pc = "TrySecondary" => Len(outcomes) = 1
    /\ pc = "TryTertiary" => Len(outcomes) = 2
    /\ pc = "Synthetic" => Len(outcomes) = 3
    /\ pc = "Done" => Len(outcomes) > 0 /\ ~Failed(outcomes[Len(outcomes)])
    /\ pc # "Done" => \A i \in DOMAIN outcomes : Failed(outcomes[i])

C2_Witness ==
    /\ pc = "Done"
    /\ Len(outcomes) = 4
    /\ outcomes[1].kind = "return"
    /\ outcomes[2].kind = "throw"

\* C3: whatever the three fetch strategies do, getLatestRadarData returns a
\* non-empty list and propagates no exception; when none of them yields
\* anything the result is the synthetic generator's.
C3_TotalFallback ==
    pc = "Done" =>
        /\ result.len > 0
        /\ ~propagated
        /\ (\A i \in DOMAIN outcomes : outcomes[i].strategy \in Fetchers => Failed(outcomes[i]))
               => result.from = "synthetic"

C3_Witness ==
    /\ pc = "Done"
    /\ Len(outcomes) = 4
    /\ outcomes[1].kind = "throw"
    /\ outcomes[2].kind = "throw"
    /\ Failed(outcomes[3])
    /\ result.from = "synthetic"
    /\ result.len > 0

\* C4: getEnhancedMockData returns a non-empty list of between 15 and 500
\* points, every station contributing between 5 and 24 of them.
C4_SyntheticSize ==
    /\ mockStation > 1 => (5 <= lastStationCount /\ lastStationCount <= 24)
    /\ \A i \in DOMAIN outcomes :
          outcomes[i].strategy = "synthetic" =>
              /\ outcomes[i].kind = "return"
              /\ 15 <= outcomes[i].len /\ outcomes[i].len <= 500
              /\ mockStation = Len(getRadarStations) + 1

C4_Witness ==
    /\ pc = "Done"
    /\ result.from = "synthetic"
    /\ result.len = mockCount
    /\ lastStationCount = 24

InBox(point) ==
    /\ 24 * Scale <= point.coordinates[2] /\ point.coordinates[2] <= 49 * Scale
    /\ (0 - 125) * Scale <= point.coordinates[1] /\ point.coordinates[1] <= (0 - 66) * Scale

\* C9: every point returned by getLatestRadarData satisfies
\* 24.0 <= lat <= 49.0 and -125.0 <= lon <= -66.0.
C9_ReturnedPointsInBox ==
    pc = "Done" => \A i \in DOMAIN result.points : InBox(result.points[i])

-----------------------------------------------------------------------------
(* Properties of the generated points (SpecPoints) *)

\* the policy the producer selects: 3-bucket in the scraper, 5-bucket in
\* the regional generator
FollowsScraperPolicy(point) ==
    /\ point.precipitation = classifyPrecipitation(point.reflectivity)
    /\ point.color = Scraper_getColorForReflectivity(point.reflectivity)

FollowsProcessorPolicy(point) ==
    /\ point.precipitation = reflectivityToPrecipitation(point.reflectivity)
    /\ point.color = Processor_getColorForReflectivity(point.reflectivity)

\* every point the scraper hands out follows the scraper's policy
ScraperPointsConsistent == emitted # NoPoint => FollowsScraperPolicy(emitted)

\* every synthetic point of the scraper lies in the continental box
SyntheticPointsInBox ==
    (emitted # NoPoint /\ emitted.source = Undefined) => InBox(emitted)

-----------------------------------------------------------------------------
(* Properties of the classifier (SpecClassifier) *)

\* the published table, inclusive lower and exclusive upper bounds
PublishedTable(r) ==
    CASE r < 10 * Scale                     -> [precipitation |-> "none", color |-> "#ffffff"]
      [] 10 * Scale <= r /\ r < 20 * Scale  -> [precipitation |-> "light", color |-> "#00ff00"]
      [] 20 * Scale <= r /\ r < 30 * Scale  -> [precipitation |-> "moderate", color |-> "#ffff00"]
      [] 30 * Scale <= r /\ r < 40 * Scale  -> [precipitation |-> "heavy", color |-> "#ff8000"]
      [] 40 * Scale <= r /\ r < 50 * Scale  -> [precipitation |-> "extreme", color |-> "#ff0000"]
      [] r >= 50 * Scale                    -> [precipitation |-> "extreme", color |-> "#800080"]

CategoryIndex(p) ==
    CASE p = "none" -> 0 [] p = "light" -> 1 [] p = "moderate" -> 2
      [] p = "heavy" -> 3 [] p = "extreme" -> 4

\* C10: the 5-bucket classifier follows the published table on every input
\* and its category index does not decrease as reflectivity increases.
C10_PublishedTable ==
    clsOut # <<NoResult, NoResult>> =>
        /\ clsOut[1] = PublishedTable(clsIn[1])
        /\ clsOut[2] = PublishedTable(clsIn[2])
        /\ clsIn[1] <= clsIn[2] =>
               CategoryIndex(clsOut[1].precipitation) <= CategoryIndex(clsOut[2].precipitation)

C10_Witness ==
    /\ clsIn = <<10 * Scale - 1, 10 * Scale>>
    /\ clsOut[1] = [precipitation |-> "none", color |-> "#ffffff"]
    /\ clsOut[2] = [precipitation |-> "light", color |-> "#00ff00"]

-----------------------------------------------------------------------------
(* Properties of the store and the scheduling (Spec) *)

\* rows of cycle c among a set of rows
RowsOf(rows, c) == {r \in rows : r.cycle = c}

\* C5: a reader of the latest query never observes a partially written
\* batch: of every cycle it sees all rows or none.
C5_NoPartialBatch ==
    \A c \in DOMAIN cycles :
        \/ RowsOf(lastRead.data, c) = {}
        \/ Cardinality(RowsOf(lastRead.data, c)) = cycles[c].total

\* C6: at no time are two executions of updateRadarData in progress.
C6_NoOverlap ==
    Cardinality({c \in DOMAIN cycles : InProgress(cycles[c])}) <= 1

\* C7: the latest query answers null when radar_data is empty, and otherwise
\* exactly the rows carrying the maximum timestamp present at query time,
\* with that maximum as the snapshot timestamp.
C7_LatestIsMaxTimestamp ==
    [][GetLatest =>
          /\ radar_data = {} => lastRead'.status = "null"
          /\ radar_data # {} =>
                /\ lastRead'.status = "rows"
                /\ \E q \in radar_data : q.timestamp = lastRead'.timestamp
                /\ \A q \in radar_data : q.timestamp <= lastRead'.timestamp
                /\ lastRead'.data = {q \in radar_data : q.timestamp = lastRead'.timestamp}
                /\ \A r \in lastRead'.data : \A q \in radar_data : q.timestamp <= r.timestamp
      ]_vars

C7_Witness ==
    /\ lastRead.status = "rows"
    /\ lastRead.timestamp = MaxTime
    /\ \E q \in radar_data : q.timestamp < lastRead.timestamp
    /\ \A r \in lastRead.data : r.timestamp = lastRead.timestamp

-----------------------------------------------------------------------------
(* Properties of convertGRIB2ToRadarPoints (SpecDecoder) *)

IsFiniteNumber(x) == x.t = "number"

\* the samples the loop has visited whose value is a number and not negative
ValidVisited ==
    {k \in DOMAIN decVisited :
        LET value == decField.values[decVisited[k] + 1]
        IN  value.t = "number" /\ value.v >= 0}

\* the output holds one point per visited sample with a valid value, and none
\* for a null, undefined, NaN or negative one
DecoderDropsInvalidValues == Len(decOut) = Cardinality(ValidVisited)

\* C11: every point convertGRIB2ToRadarPoints emits has a finite latitude, a
\* finite longitude and a finite reflectivity that is not negative.
C11_DecoderOutputFinite ==
    \A k \in DOMAIN decOut :
        /\ IsFiniteNumber(decOut[k].coordinates[1])
        /\ IsFiniteNumber(decOut[k].coordinates[2])
        /\ decOut[k].reflectivity >= 0

\* stride = max(1, floor(N / 1000)) and the number of indices 0, stride, ...
\* below N
Stride(n) == IF n \div SampleTarget >= 1 THEN n \div SampleTarget ELSE 1
StridedCount(n) == (n + Stride(n) - 1) \div Stride(n)

\* the loop visits 0, stride, 2 * stride, ... below N in increasing order,
\* all of them by the time it returns, and emits at most ceil(N / stride)
DecoderStride ==
    LET n == Len(decField.values)
    IN  /\ \A k \in DOMAIN decVisited :
              decVisited[k] = (k - 1) * Stride(n) /\ decVisited[k] < n
        /\ decPc = "returned" => Len(decVisited) = StridedCount(n)
        /\ Len(decOut) <= StridedCount(n)

\* C12: convertGRIB2ToRadarPoints never emits more than 1000 points for one
\* field.
C12_AtMostSampleTarget == Len(decOut) <= SampleTarget

\* C13: the decoder classifies every kept sample with the 5-bucket table;
\* the field BREF_1HR_MAX with values [5, 15, 25, -1, NaN] yields exactly
\* three points, 5 -> none/#ffffff, 15 -> light/#00ff00, 25 ->
\* moderate/#ffff00.
C13_DecoderFiveBucket ==
    /\ \A k \in DOMAIN decOut :
          [precipitation |-> decOut[k].precipitation, color |-> decOut[k].color]
              = PublishedTable(decOut[k].reflectivity)
    /\ (decPc = "returned" /\ decField = ScenarioField) =>
          /\ Len(decOut) = 3
          /\ decOut[1].reflectivity = 5 * Scale
          /\ decOut[1].precipitation = "none" /\ decOut[1].color = "#ffffff"
          /\ decOut[2].precipitation = "light" /\ decOut[2].color = "#00ff00"
          /\ decOut[3].precipitation = "moderate" /\ decOut[3].color = "#ffff00"

\* what the decoder does produce for that field: three points, the first
\* one classified by the scraper's 3-bucket policy
DecoderScenarioOutcome ==
    (decPc = "returned" /\ decField = ScenarioField) =>
          /\ Len(decOut) = 3
          /\ <<decOut[1].reflectivity, decOut[2].reflectivity, decOut[3].reflectivity>>
                = <<5 * Scale, 15 * Scale, 25 * Scale>>
          /\ \A k \in 1..3 : FollowsScraperPolicy(decOut[k])
          /\ decOut[1].precipitation = "light" /\ decOut[1].color = "#00ff00"

-----------------------------------------------------------------------------
(* Termination of getLatestRadarData (SpecPipelineFair) *)

\* C14: every run of getLatestRadarData eventually reaches Done and returns,
\* whatever the external services do.
C14_RunReachesDone == <>(pc = "Done")

\* away from the wait for the decoder tool every step is bounded: the run
\* reaches Done or that wait
OtherStepsBounded == (pc # "AwaitGrib2json") ~> (pc \in {"Done", "AwaitGrib2json"})

-----------------------------------------------------------------------------
(* Properties of the store over time (Spec, SpecCleanup) *)

IsCleanupStep == lastRead' \in {CleanupDone, CleanupFailed}

\* no step other than the retention cleanup removes or changes a stored row
StoreOnlyAdds == [][~IsCleanupStep => radar_data \subseteq radar_data']_vars

\* C15: storing a batch leaves every row of an earlier snapshot as it is, and
\* the rows of different cycles never share a timestamp.
C15_SnapshotsImmutable ==
    [][/\ ~IsCleanupStep => radar_data \subseteq radar_data'
       /\ \A r \in radar_data', q \in radar_data' :
              r.cycle # q.cycle => r.timestamp # q.timestamp
      ]_vars

\* older than the retention window at instant t
OlderThanRetention(r, t) == t - r.created_at > RetentionTicks

\* C18: a cleanup that succeeds deletes exactly the radar_data and
\* radar_metadata rows created more than 24 hours before it, on both
\* backends.
C18_KeepsLast24Hours ==
    [][lastRead' = CleanupDone =>
          /\ radar_data' = {r \in radar_data : ~OlderThanRetention(r, now)}
          /\ radar_metadata' = {m \in radar_metadata : ~OlderThanRetention(m, now)}
      ]_vars

\* on PostgreSQL it does
CleanupExactOnPostgreSQL ==
    [][(backend = "postgres" /\ lastRead' = CleanupDone) =>
          /\ radar_data' = {r \in radar_data : ~OlderThanRetention(r, now)}
          /\ radar_metadata' = {m \in radar_metadata : ~OlderThanRetention(m, now)}
      ]_vars

\* on SQLite it deletes every row created on or before the calendar day of
\* the cutoff, whatever the time of day
CleanupByDateOnSQLite ==
    [][(backend = "sqlite" /\ lastRead' = CleanupDone) =>
          radar_data' = {r \in radar_data :
                            r.created_at \div TicksPerDay > cutoffTime(now) \div TicksPerDay}
      ]_vars

-----------------------------------------------------------------------------
(* Properties of the regional generator and of provenance (SpecPoints,     *)
(* SpecPipeline)                                                           *)

\* C16: a call of createMockRadarData never ends with an exception: it
\* returns its feature collection.
C16_RegionalModeNeverFails == procError = "none"

\* the provenance a source tag of the code stands for
ProvenanceOf(tag) ==
    CASE tag = "MRMS_GRIB2" -> "decoded-grid"
      [] OTHER              -> "untagged"

\* the decoder tags its points, and only the decoder sets a field name
DecodedPointsTagged ==
    (emitted # NoPoint /\ emitted.field # Undefined) =>
        ProvenanceOf(emitted.source) = "decoded-grid"

\* the station estimate and the generators leave the source property out
GeneratedPointsUntagged ==
    (emitted # NoPoint /\ emitted.field = Undefined) =>
        /\ emitted.source = Undefined
        /\ emitted.station # Undefined

\* C17: every point carries a source tag that names the strategy that
\* produced it: decoded-grid from the decoder, derived-station from the
\* per-station estimate, synthetic from the generators.
C17_ProvenanceTagged ==
    [][/\ EmitGribPoint => ProvenanceOf(emitted'.source) = "decoded-grid"
       /\ EmitStationPoint => ProvenanceOf(emitted'.source) = "derived-station"
       /\ (EmitThunderstormPoint \/ EmitFrontPoint \/ EmitShowerPoint) =>
              ProvenanceOf(emitted'.source) = "synthetic"
      ]_vars

-----------------------------------------------------------------------------
(* Properties of GET /api/radar/latest (Spec) *)

\* the answer to a request the handler served without the query throwing
LatestAnswer(response) ==
    \/ /\ radar_data = {}
       /\ response.code = 404
    \/ /\ radar_data # {}
       /\ response.code = 200
       /\ response.body.type = "FeatureCollection"
       /\ response.body.metadata.totalPoints =
              Cardinality(DOMAIN response.body.features)
       /\ response.body.metadata.timestamp =
              SetMax({q.timestamp : q \in radar_data})

\* the port opens after the database is initialized and the flag never
\* goes back
ListensOnlyWhenInitialized == Listening => dbInitialized

\* a request is refused until the port is open and then answered 500, 404
\* or 200; no request is answered 503
LatestAnswersOnceListening ==
    [][GetApiRadarLatest =>
          /\ ~Listening => lastRead' = ConnectionRefused
          /\ Listening => (lastRead'.code = 500 \/ LatestAnswer(lastRead'))
          /\ lastRead'.code # 503
      ]_vars

\* C19: GET /api/radar/latest answers 503 while the database is not
\* initialized; afterwards 500 when the query throws, 404 when radar_data is
\* empty, and else 200 with a FeatureCollection whose metadata.totalPoints is
\* the number of features and whose metadata.timestamp is the latest
\* snapshot timestamp.
C19_LatestStatusCodes ==
    [][GetApiRadarLatest =>
          /\ ~dbInitialized => lastRead'.code = 503
          /\ dbInitialized => (lastRead'.code = 500 \/ LatestAnswer(lastRead'))
      ]_vars

-----------------------------------------------------------------------------
(* Properties of the primary strategy on a listing without grid files      *)
(* (SpecPipeline)                                                          *)

GridExtensions == {"grib2.gz", "grib2", "grib", "grb"}

\* the listing request succeeded and no href names a grid file
ListingWithoutGridFile ==
    /\ mrmsIo.dir.kind = "ok"
    /\ \A k \in DOMAIN mrmsIo.dir.listing :
           mrmsIo.dir.listing[k].ext \notin GridExtensions

\* C20: when the directory listing holds no candidate grid file, the primary
\* strategy returns an empty list without throwing and without requesting
\* any file, and the run goes on to the secondary strategy.
C20_EmptyListingFallsThrough ==
    ListingWithoutGridFile =>
        /\ mrmsIo.downloads = 0
        /\ pc # "AwaitGrib2json"
        /\ Len(outcomes) >= 1
        /\ outcomes[1].strategy = "primary"
        /\ outcomes[1].kind = "return"
        /\ outcomes[1].len = 0
        /\ result.from # "primary"
        /\ Len(outcomes) = 1 => pc = "TrySecondary"
        /\ Len(outcomes) >= 2 => outcomes[2].strategy = "secondary"

C20_Witness ==
    /\ ListingWithoutGridFile
    /\ Len(mrmsIo.dir.listing) > 0
    /\ Len(outcomes) >= 2
    /\ outcomes[1].strategy = "primary"
    /\ outcomes[2].strategy = "secondary"

-----------------------------------------------------------------------------
(* Properties of the tertiary strategy (SpecPipeline) *)

\* the answer of the tertiary strategy, once it has been tried
TertiaryTried == \E k \in DOMAIN outcomes : outcomes[k].strategy = "tertiary"

TertiaryOutcome == outcomes[CHOOSE k \in DOMAIN outcomes : outcomes[k].strategy = "tertiary"]

SumPoints(calls) ==
    LET sum[k \in 0..Len(calls)] == IF k = 0 THEN 0 ELSE sum[k - 1] + calls[k].points
    IN  sum[Len(calls)]

\* C21: a station whose lookup or forecast request fails contributes zero
\* points and the loop goes on: the first five stations are each queried
\* exactly once, in order, and the strategy returns the points of all calls.
C21_StationFailuresIsolated ==
    /\ Len(stationCalls) <= StationLimit
    /\ \A i, j \in DOMAIN stationCalls :
           stationCalls[i].station = stationCalls[j].station => i = j
    /\ TertiaryTried =>
           /\ Len(stationCalls) = StationLimit
           /\ \A k \in DOMAIN stationCalls :
                  /\ stationCalls[k].station = getRadarStations[k].id
                  /\ stationCalls[k].failed => stationCalls[k].points = 0
           /\ TertiaryOutcome.kind = "return"
           /\ TertiaryOutcome.len = SumPoints(stationCalls)

C21_Witness ==
    /\ TertiaryTried
    /\ stationCalls[1].failed
    /\ Len(stationCalls) = StationLimit
    /\ stationCalls[StationLimit].station = "KGRK"

-----------------------------------------------------------------------------
(* Properties of one update cycle (Spec) *)

\* the step with which updateRadarData of cycle c ends without an error
CycleCompletes(c) == cycles[c].pc = "metadata" /\ cycles'[c].pc = "done"

\* no other execution of updateRadarData took the timestamp of cycle c
TimestampOwnedBy(c) ==
    \A d \in DOMAIN cycles :
        (d # c /\ cycles[d].total > 0) => cycles[d].timestamp # cycles[c].timestamp

\* what a completed cycle leaves in the store
SnapshotStored(c) ==
    LET ts == cycles[c].timestamp
    IN  /\ Cardinality(RowsOf(radar_data', c)) = cycles[c].total
        /\ \A r \in RowsOf(radar_data', c) : r.timestamp = ts
        /\ Cardinality({m \in radar_metadata' : m.timestamp = ts}) = 1
        /\ \A m \in radar_metadata' :
               m.timestamp = ts =>
                   m.total_points = Cardinality({r \in radar_data' : r.timestamp = ts})

\* a cycle whose timestamp no other cycle took leaves a whole snapshot
SnapshotStoredWhenAlone ==
    [][\A c \in DOMAIN cycles :
          (CycleCompletes(c) /\ TimestampOwnedBy(c)) => SnapshotStored(c)]_vars

\* C22: a cycle that completes without error has stored all its points under
\* one timestamp, and then exactly one metadata row with that timestamp whose
\* total_points is the number of point rows stored for that timestamp.
C22_CompleteCycleStoresSnapshot ==
    [][\A c \in DOMAIN cycles : CycleCompletes(c) => SnapshotStored(c)]_vars

-----------------------------------------------------------------------------
(* Properties of the scheduling around start-up (Spec) *)

\* C23: while dbInitialized is false no cycle exists, the tables are not
\* touched and no cleanup runs; the step that sets dbInitialized starts
\* exactly one cycle; every later cycle is started by a due instant of the
\* five-minute schedule, one per instant; dbInitialized is never reset.
C23_NoDatabaseUseBeforeInit ==
    [][/\ ~dbInitialized =>
              /\ cycles = <<>> /\ radar_data = {} /\ radar_metadata = {}
              /\ ~IsCleanupStep
              /\ radar_data' = {} /\ radar_metadata' = {}
       /\ (~dbInitialized /\ ~dbInitialized') => cycles' = <<>>
       /\ (~dbInitialized /\ dbInitialized') => cycles' = <<NewCycle>>
       /\ dbInitialized =>
              /\ dbInitialized'
              /\ Len(cycles') >= Len(cycles)
              /\ Len(cycles') > Len(cycles) =>
                     /\ Len(cycles') = Len(cycles) + 1
                     /\ cronFired < now
                     /\ cronFired' = now
      ]_vars

\* the schedule fired before the database was ready, and start-up then
\* began the only cycle
C23_Witness ==
    /\ dbInitialized
    /\ now = 1
    /\ cronFired = 1
    /\ Len(cycles) = 1

-----------------------------------------------------------------------------
(* Properties of a failed update cycle (Spec) *)

\* updateRadarData of cycle c has caught a store error and every insert it
\* queued has run
FailedAndSettled(c) ==
    /\ cycles[c].pc = "failed"
    /\ backend = "sqlite" => cycles[c].next > Len(cycles[c].points)

\* the multi-row INSERT of PostgreSQL stores a batch whole or not at all
PostgreSQLBatchWhole ==
    backend = "postgres" =>
        \A c \in DOMAIN cycles :
            Cardinality(RowsOf(radar_data, c)) \in {0, cycles[c].total}

\* C24: after a cycle in which storeRadarData or storeRadarMetadata failed,
\* the store holds none of the cycle's point rows, or all of them together
\* with the cycle's metadata row.
C24_FailedCycleLeavesNoPartialSnapshot ==
    \A c \in DOMAIN cycles :
        FailedAndSettled(c) =>
            \/ RowsOf(radar_data, c) = {}
            \/ /\ Cardinality(RowsOf(radar_data, c)) = cycles[c].total
               /\ \E m \in radar_metadata : m.cycle = c

-----------------------------------------------------------------------------
(* Properties of the station-derived points (SpecPipeline) *)

\* every lookup of getStationRadarData fails, whatever the servers would
\* answer, and the tertiary strategy returns no point
TertiaryAlwaysEmpty ==
    TertiaryTried =>
        /\ \A k \in DOMAIN stationCalls : stationCalls[k].failed
        /\ TertiaryOutcome.len = 0

\* C25: when the primary and the secondary yield nothing and a queried
\* station's servers answer the lookup and the forecast with a positive
\* precipitation probability in one of the first three periods, the run
\* returns the station-derived points, reflectivity at most 50, and no
\* synthetic data.
C25_StationDerivedPreferred ==
    (TertiaryTried /\ nwsServes) =>
        /\ TertiaryOutcome.len > 0
        /\ \A k \in DOMAIN TertiaryOutcome.data :
               TertiaryOutcome.data[k].reflectivity <= 50 * Scale
        /\ pc = "Done"
        /\ result.from = "tertiary"

-----------------------------------------------------------------------------
(* Properties of getMRMSNcepData (SpecPrimary) *)

\* the call got as far as requesting a file, and a later step failed
DownloadOrDecodeFailed ==
    /\ primPc = "returned"
    /\ primIn.dir.kind = "ok"
    /\ DownloadsFile(primIn.dir.listing)
    /\ primIn.answer.kind = "error"

\* getMRMSNcepData throws exactly when the directory request fails; a failed
\* download or decode becomes an empty list
PrimaryThrowsOnlyOnListingFailure ==
    primPc = "returned" =>
        /\ primOut.kind = "throw" <=> primIn.dir.kind = "error"
        /\ DownloadOrDecodeFailed => primOut = Return(<<>>)

\* C26: a failed directory request, a failed download, a decompression
\* failure and a grib2json or JSON.parse failure each make getMRMSNcepData
\* throw.
C26_PrimaryThrowsOnAnyError ==
    primPc = "returned" =>
        /\ primIn.dir.kind = "error" => primOut.kind = "throw"
        /\ DownloadOrDecodeFailed => primOut.kind = "throw"

\* a call whose steps all succeed leaves the directory empty
SuccessLeavesNoFile ==
    (primPc = "returned" /\ primIn.answer.kind = "ok") => downloadDir = {}

\* C30: when downloadAndParseGRIB2 has finished, by returning or by
\* throwing at any step, none of its temporary files is left in the
\* download directory.
C30_NoTemporaryFileLeft ==
    primPc = "returned" => downloadDir = {}

-----------------------------------------------------------------------------
(* Properties of the decoder's scaling (SpecDecoder) *)

\* the values of the visited samples that are kept, in the order of the loop
KeptValues ==
    SelectSeq([k \in DOMAIN decVisited |-> decField.values[decVisited[k] + 1]],
              LAMBDA value : value.t = "number" /\ value.v >= 0)

\* min(70, max(0, 10 * v)), in fixed point
ScaledAndClamped(v) ==
    LET scaled == 10 * v
        floor0 == IF scaled < 0 THEN 0 ELSE scaled
    IN  IF floor0 > 70 * Scale THEN 70 * Scale ELSE floor0

\* C29: a kept value of a field named with BREF or REFL is emitted
\* unchanged as reflectivity; a kept value v of any other field is emitted
\* as min(70, max(0, 10 * v)), which lies in [0, 70].
C29_DecoderScaling ==
    decPc = "returned" =>
        /\ Len(decOut) = Len(KeptValues)
        /\ \A k \in DOMAIN decOut :
               IF decField.name \in {"BREF_1HR_MAX", "REFL_COMPOSITE"}
               THEN decOut[k].reflectivity = KeptValues[k].v
               ELSE /\ decOut[k].reflectivity = ScaledAndClamped(KeptValues[k].v)
                    /\ 0 <= decOut[k].reflectivity
                    /\ decOut[k].reflectivity <= 70 * Scale

C29_Witness ==
    /\ decPc = "returned"
    /\ decField.name = "PrecipRate"
    /\ \E k \in DOMAIN decOut :
           KeptValues[k].v = 5 * Scale /\ decOut[k].reflectivity = 50 * Scale
    /\ \E k \in DOMAIN decOut :
           KeptValues[k].v = 25 * Scale /\ decOut[k].reflectivity = 70 * Scale

-----------------------------------------------------------------------------
(* Properties of the store / latest round trip (Spec) *)

\* cycle c completed without error, no cycle started after it has written a
\* row, and no cleanup has removed one of its rows
LastCompleted(c) ==
    /\ cycles[c].pc = "done"
    /\ \A d \in DOMAIN cycles : d > c => RowsOf(radar_data, d) = {}
    /\ Cardinality(RowsOf(radar_data, c)) = cycles[c].total

\* the list getLatestRadarData of the scraper handed to cycle c
Emitted(c) == CHOOSE radarData \in PipelineResults : Len(radarData) = cycles[c].total

\* the answer of the latest query is cycle c's batch: its timestamp and, row
\* by row, the emitted tuple with lat = coordinates[1], lon = coordinates[0]
ReadIsBatchOf(read, c) ==
    /\ read.timestamp = cycles[c].timestamp
    /\ read.data = RowsOf(radar_data, c)
    /\ \A r \in read.data :
           LET point == Emitted(c)[r.idx]
           IN  /\ r.lat = point.coordinates[2]
               /\ r.lon = point.coordinates[1]
               /\ r.reflectivity = point.reflectivity
               /\ r.precipitation = point.precipitation
               /\ r.color = point.color

\* the served features are cycle c's points, coordinates as emitted
FeaturesAreBatchOf(body, c) ==
    /\ body.metadata.timestamp = cycles[c].timestamp
    /\ DOMAIN body.features = RowsOf(radar_data, c)
    /\ \A r \in DOMAIN body.features :
           body.features[r].geometry.coordinates = Emitted(c)[r.idx].coordinates

RoundTrip(c) ==
    /\ lastRead'.status = "rows" => ReadIsBatchOf(lastRead', c)
    /\ (lastRead'.status = "http" /\ lastRead'.code = 200) =>
           FeaturesAreBatchOf(lastRead'.body, c)
    /\ (lastRead'.status = "http" /\ lastRead'.code = 200) \/ lastRead'.status # "null"

\* the round trip of a cycle whose timestamp no other cycle took
RoundTripWhenAlone ==
    [][\A c \in DOMAIN cycles :
          (LastCompleted(c) /\ TimestampOwnedBy(c)) => RoundTrip(c)]_vars

\* C27: after a cycle has completed without error and before a later cycle
\* or a cleanup writes, the latest query returns that cycle's timestamp and
\* exactly the tuples the pipeline returned, lat from coordinates[1] and lon
\* from coordinates[0], and the served coordinates are the emitted [lon, lat].
C27_StoreLatestRoundTrip ==
    [][\A c \in DOMAIN cycles : LastCompleted(c) => RoundTrip(c)]_vars

-----------------------------------------------------------------------------
(* The bounding-box query (SpecBounds) *)

\* SQL: x BETWEEN lo AND hi, both ends included
Between(x, lo, hi) == lo <= x /\ x <= hi

\* the query restricted to the newest snapshot when no timestamp is given
getRadarDataByBoundsLatest(rows, minLat, maxLat, minLon, maxLon, timestamp) ==
    {r \in rows :
        /\ Between(r.lat, minLat, maxLat)
        /\ Between(r.lon, minLon, maxLon)
        /\ IF timestamp # Undef THEN r.timestamp = timestamp.v
           ELSE \A q \in rows : q.timestamp <= r.timestamp}

\* getRadarDataByBoundsSQLite / getRadarDataByBoundsPostgreSQL:
\*   WHERE lat BETWEEN ? AND ? AND lon BETWEEN ? AND ?
\*   if (timestamp) { query += ' AND timestamp = ?' }
getRadarDataByBounds(rows, minLat, maxLat, minLon, maxLon, timestamp) ==
    {r \in rows :
        /\ Between(r.lat, minLat, maxLat)
        /\ Between(r.lon, minLon, maxLon)
        /\ (timestamp # Undef => r.timestamp = timestamp.v)}

\* a stored row of sample point i under timestamp t
BoundsRowAt(t, i) == Row(t, radarPoints(SamplePoints)[i], t, t + 1, i)

BoundsRows == {BoundsRowAt(t, i) : t \in 0..MaxTime, i \in 1..Len(SamplePoints)}

\* the latitudes and longitudes a query names: those of the stored points,
\* one degree below the smallest and one degree above the largest
QueryLats ==
    LET lats == {r.lat : r \in BoundsRows}
    IN  lats \cup {x - Scale : x \in {y \in lats : \A z \in lats : y <= z}}
             \cup {x + Scale : x \in {y \in lats : \A z \in lats : z <= y}}

QueryLons ==
    LET lons == {r.lon : r \in BoundsRows}
    IN  lons \cup {x - Scale : x \in {y \in lons : \A z \in lons : y <= z}}
             \cup {x + Scale : x \in {y \in lons : \A z \in lons : z <= y}}

QueryTimestamps == {Undef} \cup {Num(t) : t \in 0..MaxTime}

BoundsInit ==
    /\ backend \in {"sqlite", "postgres"}
    /\ dbInitialized = TRUE
    /\ phase = "running"
    /\ now = MaxTime
    /\ cronFired = now
    /\ radar_data \in SUBSET BoundsRows
    /\ radar_metadata = {}
    /\ cycles = <<>>
    /\ lastRead = NoRead

\* database.getRadarDataByBounds(minLat, maxLat, minLon, maxLon, timestamp),
\* called by /api/radar/bounds; lastRead keeps the arguments with the answer.
\* The query writes nothing, so one call on each store covers every call.
GetRadarDataByBounds ==
    /\ dbInitialized
    /\ lastRead = NoRead
    /\ \E minLat \in QueryLats, maxLat \in QueryLats,
          minLon \in QueryLons, maxLon \in QueryLons,
          timestamp \in QueryTimestamps :
          lastRead' = [status |-> "bounds", timestamp |-> 0,
                       data |-> getRadarDataByBounds(radar_data, minLat, maxLat,
                                                     minLon, maxLon, timestamp),
                       query |-> [minLat |-> minLat, maxLat |-> maxLat,
                                  minLon |-> minLon, maxLon |-> maxLon,
                                  timestamp |-> timestamp]]
    /\ UNCHANGED <<backend, dbInitialized, phase, now, cronFired, radar_data,
                   radar_metadata, cycles>>

BoundsNext == GetRadarDataByBounds /\ UNCHANGED <<clsVars, pointVars, pipeVars, decVars, primVars>>

InitBounds == ClsRest /\ PointInit /\ PipeInit /\ BoundsInit /\ DecInit /\ PrimInit

SpecBounds == InitBounds /\ [][BoundsNext]_vars

InQueryBox(r, q) ==
    /\ q.minLat <= r.lat /\ r.lat <= q.maxLat
    /\ q.minLon <= r.lon /\ r.lon <= q.maxLon

\* C28: getRadarDataByBounds returns exactly the stored points with
\* minLat <= lat <= maxLat and minLon <= lon <= maxLon; with a timestamp only
\* the points of that timestamp, without one the points of every snapshot.
C28_BoundsQuery ==
    lastRead.status = "bounds" =>
        LET q == lastRead.query
        IN  /\ lastRead.data \subseteq radar_data
            /\ \A r \in lastRead.data : InQueryBox(r, q)
            /\ q.timestamp # Undef =>
                   /\ \A r \in lastRead.data : r.timestamp = q.timestamp.v
                   /\ \A r \in radar_data :
                          (InQueryBox(r, q) /\ r.timestamp = q.timestamp.v) => r \in lastRead.data
            /\ q.timestamp = Undef =>
                   \A r \in radar_data : InQueryBox(r, q) => r \in lastRead.data

\* a query without timestamp whose box ends on the coordinates of a stored
\* point answers with rows of two snapshots and leaves a stored row out
C28_Witness ==
    /\ lastRead.status = "bounds"
    /\ lastRead.query.timestamp = Undef
    /\ \E r1 \in lastRead.data, r2 \in lastRead.data :
          /\ r1.timestamp # r2.timestamp
          /\ r1.lat = lastRead.query.minLat
          /\ r1.lon = lastRead.query.maxLon
    /\ \E r \in radar_data : r \notin lastRead.data
====
